---- MODULE Spec2Model ----
(***************************************************************************)
(* Model of the remote sync engine of gtfa (src/main.py): the single-      *)
(* commit batch upload of op_upload_folder and the filesystem watch loop   *)
(* of SyncEventHandler / dev_auto_sync, both clients of one remote         *)
(* repository reached through the content API.                             *)
(*                                                                         *)
(* Strings that the code takes apart (paths, the repo base) are sequences  *)
(* of tokens: "/" or a path segment.  Bytes are sequences of numbers.      *)
(***************************************************************************)
EXTENDS Integers, Sequences, FiniteSets, TLC

VARIABLES
    \* ---- the remote repository (one branch) ----
    commits,        \* commit objects, a commit's sha is its index: [tree, parents]
    head,           \* the branch reference: a commit sha, or NoRef
    blobs,          \* blob object store (set of blob shas)
    trees,          \* tree object store (set of tree shas)
    refLog,         \* who moved the branch reference, in order
    \* ---- op_upload_folder, single-commit batch mode, one per invocation ----
    batch,          \* the locals of each invocation
    calls,          \* the remote calls each invocation has issued, in order
    reads,          \* the bytes each invocation read and uploaded, per local file
    faults,         \* which files' blob step failed (environment's choice)
    \* ---- dev_auto_sync / SyncEventHandler ----
    localFs,        \* the watched folder: relative path -> bytes
    queue,          \* the numbers of the delivered events not yet dispatched
    script,         \* every event the observer has delivered, in delivery order
    handler,        \* the locals of the handler being run by the observer thread
    observer,       \* "running", "stopping" (stop() called), "joined"
    remoteCalls,    \* the remote calls of the watch loop: [n, call, path]
    reports,        \* what the handlers printed, with the facts of the call reported
    others,         \* number of mutations made by other actors so far
    \* ---- the scanner, the path mappers and the recursive remote walk ----
    probe,          \* one application of a pure function: its inputs and results
    walk            \* the locals of gather_rec / gather and the requests it made

vars == <<commits, head, blobs, trees, refLog, batch, calls, reads, faults,
          localFs, queue, script, handler, observer, remoteCalls, reports, others,
          probe, walk>>

remoteVars == <<commits, head, blobs, trees, refLog>>
batchVars  == <<batch, calls, reads, faults>>
watchVars  == <<localFs, queue, script, handler, observer, remoteCalls, reports>>
toolVars   == <<probe, walk>>

----------------------------------------------------------------------------
(* Values *)

NoRef  == 0          \* the branch does not exist
None   == <<>>       \* Python None / absent token

\* File contents (raw bytes); sizes 1 and 2
Bytes == {<<1>>, <<2, 2>>}

\* Local files, relative to the local folder (pathlib parts)
LocalRelPaths == {<<"a.txt">>, <<"sub", "b.txt">>}

\* The repo base the user may type: "", "d", "/d/", "/"
RepoBases == {<<>>, <<"d">>, <<"/", "d", "/">>, <<"/">>}

\* The repo bases the batch uploads are run with
BatchBases == {<<>>, <<"/", "d", "/">>}

Batches == {"b1", "b2"}

\* The local folder (uploaded or watched), as pathlib parts of an absolute path
LocalRoot == <<"/", "home", "site">>

----------------------------------------------------------------------------
(* Pure helpers *)

RECURSIVE Join(_)
\* "/".join(parts): a token sequence
Join(parts) ==
    IF parts = <<>> THEN <<>>
    ELSE IF Len(parts) = 1 THEN parts[1]
    ELSE parts[1] \o <<"/">> \o Join(Tail(parts))

RECURSIVE LStrip(_)
LStrip(s) == IF s # <<>> /\ Head(s) = "/" THEN LStrip(Tail(s)) ELSE s

RECURSIVE RStrip(_)
RStrip(s) == IF s # <<>> /\ s[Len(s)] = "/" THEN RStrip(SubSeq(s, 1, Len(s) - 1)) ELSE s

\* str.strip("/")
Strip(s) == RStrip(LStrip(s))

\* [p for p in parts if p not in (".", "..")]
DropDots(parts) == SelectSeq(parts, LAMBDA p : p \notin {".", ".."})

\* Each segment as a one-token string, for Join
AsStrings(parts) == [i \in 1..Len(parts) |-> <<parts[i]>>]

\* path_to_repo_path(local_base, file_path, repo_base), rel = file_path.relative_to(local_base)
path_to_repo_path(rel, repo_base) ==
    LET parts == AsStrings(DropDots(rel))
    IN  IF repo_base # <<>>
        THEN Join(<<Strip(repo_base)>> \o parts)
        ELSE Join(parts)

\* Path.relative_to(local_base): the parts of file_path after those of local_base
relative_to(file_path, local_base) ==
    SubSeq(file_path, Len(local_base) + 1, Len(file_path))

\* folder.rglob("*"): every file below the folder and every directory on the
\* way to one; tree is the set of the files' paths relative to the folder
rglob(folder, tree) ==
    {[path |-> folder \o rel, is_file |-> TRUE] : rel \in tree}
        \cup UNION {{[path |-> folder \o SubSeq(rel, 1, k), is_file |-> FALSE] :
                        k \in 1..(Len(rel) - 1)} : rel \in tree}

\* lines 229-235: gather_files_for_folder(folder, skip_patterns), as a set
gather_files_by_name(folder, tree, skip_patterns) ==
    {p.path : p \in {q \in rglob(folder, tree) :
                        q.is_file /\ q.path[Len(q.path)] \notin skip_patterns}}
gather_files_for_folder(folder, tree, skip_patterns) ==
    {p.path : p \in {q \in rglob(folder, tree) :
                        q.is_file /\ ~\E part \in skip_patterns :
                                        \E k \in 1..Len(q.path) : q.path[k] = part}}

\* base64.b64encode(...).decode() on the client, decoded again by the remote
b64encode(bytes) == <<"b64", bytes>>
b64decode(text)  == text[2]

\* Content-addressed object names
BlobSha(bytes) == <<"blob", bytes>>
BytesOf(sha)   == sha[2]
TreeSha(tree)  == <<"tree", tree>>
TreeOf(sha)    == sha[2]

\* All orderings of a finite set, as sequences without repetition
Orderings(S) ==
    {s \in [1..Cardinality(S) -> S] : \A i, j \in 1..Cardinality(S) : s[i] = s[j] => i = j}

Range(s) == {s[i] : i \in 1..Len(s)}

----------------------------------------------------------------------------
(* The remote content API, as the client functions see it *)

EmptyTree == << >>

\* The tree of the branch head (the files visible on the branch)
HeadTree == IF head = NoRef THEN EmptyTree ELSE commits[head].tree

RECURSIVE IsAncestor(_, _)
\* commit a is c or an ancestor of c (first-parent chain)
IsAncestor(a, c) ==
    IF c = a THEN TRUE
    ELSE IF c = NoRef \/ commits[c].parents = <<>> THEN FALSE
    ELSE IsAncestor(a, commits[c].parents[1])

\* A path the tree API accepts: non-empty, no leading "/", no empty segment
ValidTreePath(p) ==
    /\ p # <<>>
    /\ p[1] # "/"
    /\ p[Len(p)] # "/"
    /\ \A i \in 1..(Len(p) - 1) : ~(p[i] = "/" /\ p[i + 1] = "/")

\* Layer the entries onto the base tree: entries replace or add, nothing is removed
LayerTree(base, entries) ==
    [p \in (DOMAIN base) \cup {entries[i].path : i \in 1..Len(entries)} |->
        IF \E i \in 1..Len(entries) : entries[i].path = p
        THEN (CHOOSE e \in Range(entries) : e.path = p).sha
        ELSE base[p]]

\* updateRef on the remote: the reference must exist, and without force the
\* current head must be an ancestor of the new commit
RefUpdateAccepted(commit_sha, force) ==
    /\ head # NoRef
    /\ commit_sha \in 1..Len(commits)
    /\ (force \/ IsAncestor(head, commit_sha))

\* The version token of a path on the branch, None when the path is no file there
TokenAt(path) == IF path \in DOMAIN HeadTree THEN HeadTree[path] ELSE None

----------------------------------------------------------------------------
(* op_upload_folder, mode "2": single-commit batch *)

\* The outcome op_upload_folder ends with (the message it prints before returning)
AbortedNoChanges   == "AbortedNoChanges"     \* "Tidak ada file didalam folder."
PartialFailure     == "PartialFailure"       \* "Beberapa blob gagal dibuat ... Batal commit batch."
RefFailed          == "RefFailed"            \* "Gagal ambil ref branch"
CommitFetchFailed  == "CommitFetchFailed"    \* "Gagal ambil commit object"
TreeFailed         == "TreeFailed"           \* "Gagal membuat tree"
CommitFailed       == "CommitFailed"         \* "Gagal membuat commit"
UpdateRefFailed    == "UpdateRefFailed"      \* "Gagal update branch ref"
BatchOk            == "Ok"                   \* "Batch upload selesai."
Raised             == "Raised"               \* an exception left op_upload_folder
Running            == "Running"

InitBatch(folder, base) ==
    [pc |-> "start", local_folder |-> folder, target_repo_base |-> base,
     files |-> <<>>, i |-> 1, tree_entries |-> <<>>, failures |-> <<>>,
     base_commit_sha |-> NoRef, base_tree_sha |-> None,
     new_tree_sha |-> None, new_commit_sha |-> NoRef,
     result |-> Running, resp |-> None,
     \* bookkeeping for the properties, never read by the operation
     startHead |-> NoRef, startLog |-> 0, endHead |-> NoRef, sawNoRef |-> FALSE]

\* endHead: the branch head when update_ref answered

Called(b, name) == calls' = [calls EXCEPT ![b] = Append(@, name)]

\* The operation moves to pc; when that ends it, it ends with result
Goto(b, pc, result, resp) ==
    batch' = [batch EXCEPT ![b].pc = pc,
                           ![b].result = IF pc = "done" THEN result ELSE Running,
                           ![b].resp = resp]

Finish(b, result, resp) == Goto(b, "done", result, resp)

\* lines 298-300: an empty file list ends the operation
AfterGatherNoCheck(files) == IF files = <<>> THEN "get_ref" ELSE "blobs"
AfterGather(files) == IF files = <<>> THEN "done" ELSE "blobs"

\* line 297: gather_files_for_folder(local_folder), no skip patterns; the files
\* are kept by their path relative to the folder
BatchFiles(b) ==
    {relative_to(p, LocalRoot) :
        p \in gather_files_for_folder(LocalRoot, batch[b].local_folder, {})}

\* lines 297-300: gather the files
Gather(b) ==
    /\ batch[b].pc = "start"
    /\ \E order \in Orderings(BatchFiles(b)) :
          batch' = [batch EXCEPT
                      ![b].files = order,
                      ![b].startHead = head,
                      ![b].startLog = Len(refLog),
                      ![b].pc = AfterGather(order),
                      ![b].result = IF AfterGather(order) = "done"
                                    THEN AbortedNoChanges ELSE Running]
    /\ UNCHANGED <<remoteVars, calls, reads, faults, watchVars, others, toolVars>>

\* lines 344-348: the gate after the blob loop
AfterBlobsNoGate(failures) == "get_ref"
AfterBlobs(failures) == IF failures # <<>> THEN "done" ELSE "get_ref"

\* line 329: the loop goes on to the next file whatever happened to this one
LoopPcBreak(last, failures) ==
    IF last \/ failures # <<>> THEN AfterBlobs(failures) ELSE "blobs"
LoopPc(last, failures) == IF last THEN AfterBlobs(failures) ELSE "blobs"

\* The locals after the loop body ran for one file (line 343, then 344 at the end)
LoopNext(b, entries, failures) ==
    LET pc == LoopPc(batch[b].i = Len(batch[b].files), failures)
    IN  batch' = [batch EXCEPT
                    ![b].i = @ + 1,
                    ![b].tree_entries = entries,
                    ![b].failures = failures,
                    ![b].pc = pc,
                    ![b].result = IF pc = "done" THEN PartialFailure ELSE Running]

\* line 339: the remote path of a local file of the batch
BatchRepoPathBasename(b, f) == <<f[Len(f)]>>
BatchRepoPathByPosition(b, f) == path_to_repo_path(batch[b].files[1], batch[b].target_repo_base)
BatchRepoPath(b, f) == path_to_repo_path(f, batch[b].target_repo_base)

\* lines 329-343: one iteration of the blob loop
BlobStep(b) ==
    /\ batch[b].pc = "blobs"
    /\ LET f == batch[b].files[batch[b].i] IN
       \/ \* f.read_bytes() raises: caught at 341, no request is made
          /\ LoopNext(b, batch[b].tree_entries, Append(batch[b].failures, <<f, "exception">>))
          /\ faults' = [faults EXCEPT ![b] = @ \cup {f}]
          /\ UNCHANGED <<remoteVars, calls, reads>>
       \/ \* the request raises: caught at 341
          /\ Called(b, "create_blob")
          /\ LoopNext(b, batch[b].tree_entries, Append(batch[b].failures, <<f, "exception">>))
          /\ faults' = [faults EXCEPT ![b] = @ \cup {f}]
          /\ UNCHANGED <<remoteVars, reads>>
       \/ \* status is not 201: lines 334-337
          /\ Called(b, "create_blob")
          /\ LoopNext(b, batch[b].tree_entries, Append(batch[b].failures, <<f, "response">>))
          /\ faults' = [faults EXCEPT ![b] = @ \cup {f}]
          /\ UNCHANGED <<remoteVars, reads>>
       \/ \* 201: lines 338-340
          \E bytes_data \in Bytes :
          LET b64       == b64encode(bytes_data)
              blob_sha  == BlobSha(b64decode(b64))
              repo_path == BatchRepoPath(b, f)
          IN  /\ Called(b, "create_blob")
              /\ reads' = [reads EXCEPT ![b] = @ @@ (f :> bytes_data)]
              /\ blobs' = blobs \cup {blob_sha}
              /\ LoopNext(b, Append(batch[b].tree_entries,
                                    [path |-> repo_path, sha |-> blob_sha]),
                          batch[b].failures)
              /\ UNCHANGED <<commits, head, trees, refLog, faults>>
    /\ UNCHANGED <<watchVars, others, toolVars>>

\* lines 350-352: a failed get_ref ends the operation
AfterGetRefIgnored(ok_ref) == "get_commit"
AfterGetRef(ok_ref) == IF ok_ref THEN "get_commit" ELSE "done"

\* line 353: the head hash of the answer of get_ref
ref_data_at_start(b) == batch[b].startHead
ref_data(b) == head

\* lines 349-353: get_ref
GetRef(b) ==
    /\ batch[b].pc = "get_ref"
    /\ Called(b, "get_ref")
    /\ \/ Finish(b, Raised, "exception")
       \/ Goto(b, AfterGetRef(FALSE), RefFailed, "response")
       \/ /\ head = NoRef
          /\ batch' = [batch EXCEPT
                         ![b].pc = AfterGetRef(FALSE),
                         ![b].result = IF AfterGetRef(FALSE) = "done" THEN RefFailed ELSE Running,
                         ![b].resp = "not_found",
                         ![b].sawNoRef = TRUE]
       \/ /\ head # NoRef
          /\ batch' = [batch EXCEPT ![b].base_commit_sha = ref_data(b),
                                    ![b].pc = AfterGetRef(TRUE)]
    /\ UNCHANGED <<remoteVars, reads, faults, watchVars, others, toolVars>>

\* lines 354-358: fetch the head commit to learn its tree
GetCommit(b) ==
    /\ batch[b].pc = "get_commit"
    /\ Called(b, "get_commit")
    /\ \/ Finish(b, Raised, "exception")
       \/ Finish(b, CommitFetchFailed, "response")
       \/ /\ batch[b].base_commit_sha \notin 1..Len(commits)
          /\ Finish(b, CommitFetchFailed, "not_found")
       \/ /\ batch[b].base_commit_sha \in 1..Len(commits)
          /\ batch' = [batch EXCEPT
                         ![b].base_tree_sha = TreeSha(commits[batch[b].base_commit_sha].tree),
                         ![b].pc = "create_tree"]
    /\ UNCHANGED <<remoteVars, reads, faults, watchVars, others, toolVars>>

\* lines 180-187: create_tree; the remote layers the entries onto base_tree
create_tree_bare(tree, base_tree) == LayerTree(EmptyTree, tree)
create_tree(tree, base_tree) ==
    LayerTree(IF base_tree # None THEN TreeOf(base_tree) ELSE EmptyTree, tree)

\* lines 359-363: create_tree on top of the base tree
CreateTree(b) ==
    /\ batch[b].pc = "create_tree"
    /\ Called(b, "create_tree")
    /\ \/ /\ Finish(b, Raised, "exception")
          /\ UNCHANGED trees
       \/ /\ Finish(b, TreeFailed, "response")
          /\ UNCHANGED trees
       \/ /\ \E i \in 1..Len(batch[b].tree_entries) :
                ~ValidTreePath(batch[b].tree_entries[i].path)
          /\ Finish(b, TreeFailed, "invalid_path")
          /\ UNCHANGED trees
       \/ /\ \A i \in 1..Len(batch[b].tree_entries) :
                /\ ValidTreePath(batch[b].tree_entries[i].path)
                /\ batch[b].tree_entries[i].sha \in blobs
          /\ LET new == TreeSha(create_tree(batch[b].tree_entries, batch[b].base_tree_sha))
             IN  /\ trees' = trees \cup {new}
                 /\ batch' = [batch EXCEPT ![b].new_tree_sha = new, ![b].pc = "create_commit"]
    /\ UNCHANGED <<commits, head, blobs, refLog, reads, faults, watchVars, others, toolVars>>

\* The parents the batch gives its commit (line 364)
CommitParentsNone(b) == <<>>
CommitParents(b) == <<batch[b].base_commit_sha>>

\* lines 365-368: a failed create_commit ends the operation
AfterCommitIgnored(ok_commit) == "update_ref"
AfterCommit(ok_commit) == IF ok_commit THEN "update_ref" ELSE "done"

\* lines 364-368: create_commit
CreateCommit(b) ==
    /\ batch[b].pc = "create_commit"
    /\ Called(b, "create_commit")
    /\ \/ /\ Finish(b, Raised, "exception")
          /\ UNCHANGED commits
       \/ /\ Goto(b, AfterCommit(FALSE), CommitFailed, "response")
          /\ UNCHANGED commits
       \/ /\ batch[b].new_tree_sha \in trees
          /\ commits' = Append(commits, [tree |-> TreeOf(batch[b].new_tree_sha),
                                         parents |-> CommitParents(b),
                                         author |-> b])
          /\ batch' = [batch EXCEPT ![b].new_commit_sha = Len(commits) + 1,
                                    ![b].pc = AfterCommit(TRUE)]
    /\ UNCHANGED <<head, blobs, trees, refLog, reads, faults, watchVars, others, toolVars>>

\* The force flag of the batch's update_ref (line 369)
UpdateForceForced == TRUE
UpdateForce == FALSE

\* lines 370-373: what the operation ends with after update_ref returned
UpdateOutcome(ok_update) == IF ok_update THEN BatchOk ELSE UpdateRefFailed

\* lines 370-373: update_ref is the last call: both branches end the operation
AfterUpdateRefRetry(ok_update) == IF ok_update THEN "done" ELSE "update_ref"
AfterUpdateRef(ok_update) == "done"

\* lines 369-373: update_ref, the step that makes the batch visible
UpdateRef(b) ==
    /\ batch[b].pc = "update_ref"
    /\ Called(b, "update_ref")
    /\ \/ /\ Finish(b, Raised, "exception")
          /\ UNCHANGED <<head, refLog>>
       \/ /\ Goto(b, AfterUpdateRef(FALSE), UpdateOutcome(FALSE), "response")
          /\ UNCHANGED <<head, refLog>>
       \/ /\ head = NoRef
          /\ Goto(b, AfterUpdateRef(FALSE), UpdateOutcome(FALSE), "no_reference")
          /\ UNCHANGED <<head, refLog>>
       \/ /\ head # NoRef
          /\ ~RefUpdateAccepted(batch[b].new_commit_sha, UpdateForce)
          /\ batch' = [batch EXCEPT ![b].pc = AfterUpdateRef(FALSE),
                                    ![b].result = UpdateOutcome(FALSE),
                                    ![b].resp = "not_fast_forward",
                                    ![b].endHead = head]
          /\ UNCHANGED <<head, refLog>>
       \/ /\ RefUpdateAccepted(batch[b].new_commit_sha, UpdateForce)
          /\ head' = batch[b].new_commit_sha
          /\ refLog' = Append(refLog, [by |-> b, from |-> head, to |-> batch[b].new_commit_sha])
          /\ batch' = [batch EXCEPT ![b].pc = AfterUpdateRef(TRUE),
                                    ![b].result = UpdateOutcome(TRUE),
                                    ![b].resp = "updated",
                                    ![b].endHead = batch[b].new_commit_sha]
    /\ UNCHANGED <<commits, blobs, trees, reads, faults, watchVars, others, toolVars>>

\* Another actor deletes the branch
BranchDeleted ==
    /\ head # NoRef
    /\ head' = NoRef
    /\ refLog' = Append(refLog, [by |-> "other", from |-> head, to |-> NoRef])
    /\ UNCHANGED <<commits, blobs, trees, batchVars, watchVars, others, toolVars>>

\* SyncEventHandler between two events: only self.target_repo_base is kept (774)
IdleHandler(base) ==
    [pc |-> "idle", target_repo_base |-> base, n |-> 0, content_b64 |-> None,
     repo_path |-> None, sha |-> None, stale |-> FALSE]

\* The trees the branch may hold before anything runs
InitTrees ==
    {(<<"a.txt">> :> BlobSha(<<9, 9, 9>>)) @@ (<<"keep.txt">> :> BlobSha(<<8>>))}

InitRemote ==
    /\ \E t \in InitTrees :
          /\ commits = <<[tree |-> t, parents |-> <<>>, author |-> "init"]>>
          /\ trees = {TreeSha(t)}
          /\ blobs = {t[p] : p \in DOMAIN t}
    /\ head = 1
    /\ refLog = <<>>

\* No pure function is being applied and no walk is running
ToolsIdle ==
    /\ probe = [fn |-> "none"]
    /\ walk = [pc |-> "idle"]

WatchIdle ==
    /\ localFs = << >>
    /\ queue = <<>>
    /\ script = <<>>
    /\ handler = IdleHandler(<<>>)
    /\ observer = "joined"
    /\ remoteCalls = <<>>
    /\ reports = <<>>

Init ==
    /\ InitRemote
    /\ batch \in [Batches -> {InitBatch(folder, base) :
                                folder \in SUBSET LocalRelPaths, base \in BatchBases}]
    /\ calls = [b \in Batches |-> <<>>]
    /\ reads = [b \in Batches |-> << >>]
    /\ faults = [b \in Batches |-> {}]
    /\ others = 0
    /\ WatchIdle
    /\ ToolsIdle

Next ==
    \/ \E b \in Batches : Gather(b)
    \/ \E b \in Batches : BlobStep(b)
    \/ \E b \in Batches : GetRef(b)
    \/ \E b \in Batches : GetCommit(b)
    \/ \E b \in Batches : CreateTree(b)
    \/ \E b \in Batches : CreateCommit(b)
    \/ \E b \in Batches : UpdateRef(b)
    \/ BranchDeleted

Spec == Init /\ [][Next]_vars

----------------------------------------------------------------------------
(* Properties of the batch upload *)

Done(b) == batch[b].pc = "done"

\* The reference moves made since invocation b started
MovesSince(b) == SubSeq(refLog, batch[b].startLog + 1, Len(refLog))

MovedBy(b) == \E k \in 1..Len(refLog) : refLog[k].by = b

HasCall(b, name) == \E k \in 1..Len(calls[b]) : calls[b][k] = name

\* The remote path the design gives a local file: the segments of the base
\* (its "/" dropped) followed by the segments of the relative path, joined by "/"
MappedPath(rel, base) == Join(AsStrings(SelectSeq(base, LAMBDA t : t # "/") \o rel))

\* C1 - Batch atomicity: when the blob step of at least one file of a batch
\* failed, the batch never moves the branch reference, and when it has
\* returned the head is the commit it was when the batch started unless
\* another actor moved it meanwhile.
C1_BatchAtomicity ==
    \A b \in Batches :
        faults[b] # {} =>
            /\ ~MovedBy(b)
            /\ (Done(b) /\ MovesSince(b) = <<>>) => head = batch[b].startHead

\* C1 witness: a two-file batch returned after one blob was created and the other failed
C1_Witness ==
    \E b \in Batches :
        /\ Done(b)
        /\ faults[b] # {}
        /\ batch[b].tree_entries # <<>>
        /\ batch[b].result = PartialFailure

\* C2 - Blob gate: once a blob step has failed the batch issues no get_ref,
\* create_tree, create_commit or update_ref call; the loop still runs for
\* every file; the failure list names exactly the files whose blob step failed.
C2_BlobGate ==
    \A b \in Batches :
        faults[b] # {} =>
            /\ \A k \in 1..Len(calls[b]) : calls[b][k] = "create_blob"
            /\ Done(b) =>
                  /\ batch[b].result = PartialFailure
                  /\ {batch[b].failures[k][1] : k \in 1..Len(batch[b].failures)} = faults[b]
                  /\ Len(batch[b].failures) = Cardinality(faults[b])
                  /\ faults[b] \cup DOMAIN reads[b] = batch[b].local_folder
                  /\ Len(batch[b].failures) + Len(batch[b].tree_entries) = Len(batch[b].files)

\* C2 witness: the first file of a two-file batch failed and the second was still uploaded
C2_Witness ==
    \E b \in Batches :
        /\ Done(b)
        /\ Len(batch[b].files) = 2
        /\ batch[b].files[1] \in faults[b]
        /\ batch[b].files[2] \in DOMAIN reads[b]
        /\ calls[b] = <<"create_blob", "create_blob">>

\* A batch whose update_ref came after another actor had moved the branch
\* away from the head the batch had read
StaleUpdate(b) ==
    /\ Done(b)
    /\ HasCall(b, "update_ref")
    /\ batch[b].resp \in {"not_fast_forward", "updated"}
    /\ \E k \in 1..Len(refLog) :
          /\ refLog[k].by # b
          /\ refLog[k].from = batch[b].base_commit_sha
          /\ refLog[k].to # NoRef

C4_Original ==
    \A b \in Batches :
        batch[b].new_commit_sha # NoRef =>
            commits[batch[b].new_commit_sha].parents = <<batch[b].startHead>>

\* C4 amended: the batch's commit has exactly one parent, the head returned by
\* the batch's own get_ref, which is issued after all its blob uploads.
C4_ParentIsHeadAtGetRef ==
    \A b \in Batches :
        batch[b].new_commit_sha # NoRef =>
            /\ Len(commits[batch[b].new_commit_sha].parents) = 1
            /\ commits[batch[b].new_commit_sha].parents[1] = batch[b].base_commit_sha
            /\ commits[batch[b].new_commit_sha].author = b
            /\ \E n \in 1..Len(calls[b]) :
                  /\ calls[b][n] = "get_ref"
                  /\ \A k \in 1..Len(calls[b]) : (calls[b][k] = "create_blob") <=> k < n

\* C4 witness: another writer advanced the branch while the blobs were uploaded
C4_Witness ==
    \E b \in Batches :
        /\ batch[b].new_commit_sha # NoRef
        /\ batch[b].base_commit_sha # batch[b].startHead
        /\ batch[b].startHead # NoRef

\* C5 - After a batch returned success, the head it installed holds every file
\* of the batch at its mapped remote path with exactly the bytes read locally
\* (same size) and a non-empty version token.
C5_UploadedFilesReadable ==
    \A b \in Batches :
        batch[b].result = BatchOk =>
            /\ batch[b].endHead = batch[b].new_commit_sha
            /\ \A f \in batch[b].local_folder :
                  LET t == commits[batch[b].endHead].tree
                      p == MappedPath(f, batch[b].target_repo_base)
                  IN  /\ p \in DOMAIN t
                      /\ t[p] # None
                      /\ BytesOf(t[p]) = reads[b][f]
                      /\ Len(BytesOf(t[p])) = Len(reads[b][f])

\* C5 witness: a two-file batch under a non-empty base succeeded
C5_Witness ==
    \E b \in Batches :
        /\ batch[b].result = BatchOk
        /\ Cardinality(batch[b].local_folder) = 2
        /\ batch[b].target_repo_base # <<>>
        /\ head = batch[b].new_commit_sha

\* C6 - A batch given no file ends with AbortedNoChanges, issues no remote
\* call, creates no commit and never moves the branch reference.
C6_EmptyBatchAborts ==
    \A b \in Batches :
        (batch[b].local_folder = {} /\ batch[b].pc # "start") =>
            /\ Done(b)
            /\ batch[b].result = AbortedNoChanges
            /\ calls[b] = <<>>
            /\ ~MovedBy(b)
            /\ \A k \in 1..Len(commits) : commits[k].author # b

\* C6 witness: an empty batch returned while the other batch committed
C6_Witness ==
    \E b, c \in Batches :
        /\ batch[b].local_folder = {}
        /\ Done(b)
        /\ batch[c].result = BatchOk

\* C7 - When get_ref finds no branch the batch ends with the get-ref failure,
\* an outcome no other failure gives (in particular not PartialFailure), and
\* issues no call after get_ref.
C7_BranchMissing ==
    \A b \in Batches :
        /\ batch[b].sawNoRef =>
              /\ Done(b)
              /\ batch[b].result = RefFailed
              /\ batch[b].result # PartialFailure
              /\ calls[b][Len(calls[b])] = "get_ref"
              /\ ~HasCall(b, "create_tree")
              /\ ~HasCall(b, "create_commit")
              /\ ~HasCall(b, "update_ref")
        /\ batch[b].result = RefFailed =>
              /\ calls[b][Len(calls[b])] = "get_ref"
              /\ faults[b] = {}

\* C7 witness: the branch was deleted while the blobs were uploaded
C7_Witness ==
    \E b \in Batches :
        /\ batch[b].sawNoRef
        /\ batch[b].startHead # NoRef
        /\ Done(b)

----------------------------------------------------------------------------
(* The contents API: one file per call, guarded by the version token *)

\* The remote accepts a put or delete of path presenting token: the token must
\* be the file's current one, and absent exactly when the file is absent
TokenAccepted(path, token) == head # NoRef /\ token = TokenAt(path)

\* The branch after `who` changed the tree to `tree` through the contents API
Install(who, tree) ==
    /\ commits' = Append(commits, [tree |-> tree, parents |-> <<head>>, author |-> who])
    /\ head' = Len(commits) + 1
    /\ trees' = trees \cup {TreeSha(tree)}
    /\ blobs' = blobs \cup {tree[q] : q \in DOMAIN tree}
    /\ refLog' = Append(refLog, [by |-> who, from |-> head, to |-> Len(commits) + 1])

WithFile(tree, path, sha) ==
    [q \in (DOMAIN tree) \cup {path} |-> IF q = path THEN sha ELSE tree[q]]

WithoutFile(tree, path) == [q \in (DOMAIN tree) \ {path} |-> tree[q]]

----------------------------------------------------------------------------
(* dev_auto_sync and SyncEventHandler *)

MaxEvents     == 2  \* events delivered in one run of the watch loop
MaxRaceEvents == 1  \* events delivered in one run shared with other actors
MaxOther      == 2  \* mutations other actors make in one run

\* cfg["sync_ignore"] (line 64)
SyncIgnore == {".git", "__pycache__"}

WatchBases == {<<>>, <<"/", "d", "/">>}

FileEvent(kind, path) == [kind |-> kind, path |-> path, is_directory |-> FALSE]
DirEvent(kind, path)  == [kind |-> kind, path |-> path, is_directory |-> TRUE]

\* The notifications the observer may deliver (paths relative to LocalRoot)
WatchEvents ==
    {FileEvent(k, <<"a.txt">>) : k \in {"created", "modified", "deleted", "moved"}}
        \cup {FileEvent("modified", <<".git", "HEAD">>), FileEvent("created", <<"c.txt">>)}
        \cup {DirEvent(k, <<"sub">>) : k \in {"created", "modified", "deleted"}}

\* Where a moved file goes
MoveTarget(path) == <<"c.txt">>

\* What the local change behind an event leaves in the file
Written(kind) == IF kind = "created" THEN <<1>> ELSE <<2, 2>>

\* The watched folder after the local change that caused event e
LocalAfter(fs, e) ==
    IF e.is_directory THEN fs
    ELSE IF e.kind \in {"created", "modified"}
         THEN [q \in (DOMAIN fs) \cup {e.path} |->
                  IF q = e.path THEN Written(e.kind) ELSE fs[q]]
    ELSE IF e.kind = "deleted"
         THEN [q \in (DOMAIN fs) \ {e.path} |-> fs[q]]
    ELSE IF e.path \in DOMAIN fs
         THEN [q \in ((DOMAIN fs) \ {e.path}) \cup {MoveTarget(e.path)} |->
                  IF q = MoveTarget(e.path) THEN fs[e.path] ELSE fs[q]]
    ELSE fs

\* lines 778-779: _is_ignored(src)
_is_ignored_name(src) == src[Len(src)] \in SyncIgnore
_is_ignored(src) == \E part \in SyncIgnore : part \in Range(src)

\* lines 781-786: _repo_path(src), rel = src.relative_to(self.local_root)
_repo_path(rel, target_repo_base) ==
    LET repo_path == Join(AsStrings(rel))
    IN  IF target_repo_base # <<>>
        THEN target_repo_base \o <<"/">> \o repo_path
        ELSE repo_path

\* lines 788-791, 805-808, 822-825: the handler acts on created, modified and
\* deleted events of files that are not ignored; other events reach the base
\* class, which does nothing
ActsOnMoved(e) ==
    /\ e.kind \in {"created", "modified", "deleted", "moved"}
    /\ ~e.is_directory
    /\ ~_is_ignored(LocalRoot \o e.path)
ActsOnDirs(e) ==
    /\ e.kind \in {"created", "modified", "deleted"}
    /\ ~_is_ignored(LocalRoot \o e.path)
ActsNotOnCreated(e) ==
    /\ e.kind \in {"modified", "deleted"}
    /\ ~e.is_directory
    /\ ~_is_ignored(LocalRoot \o e.path)
Acts(e) ==
    /\ e.kind \in {"created", "modified", "deleted"}
    /\ ~e.is_directory
    /\ ~_is_ignored(LocalRoot \o e.path)

\* The observer thread takes the oldest event of its queue
TakeLast(q) == Len(q)
TakeAt(q) == 1

Without(q, k) == SubSeq(q, 1, k - 1) \o SubSeq(q, k + 1, Len(q))

\* What a handler printed (what), with the facts the properties speak about:
\* the step it ended at, the token its lookup returned, the file's token when
\* the mutation was requested, whether the branch changed, whether another
\* actor had mutated the file since the lookup
Report(n, what, read, current, changed, stale) ==
    reports' = Append(reports, [n |-> n, what |-> what, at |-> "mutate", read |-> read,
                                current |-> current, changed |-> changed, stale |-> stale])

Say(n, what, at) ==
    reports' = Append(reports, [n |-> n, what |-> what, at |-> at, read |-> None,
                                current |-> None, changed |-> FALSE, stale |-> FALSE])

\* token: the token a lookup returned to the handler, or the one a put or
\* delete carried
Call(n, call, path, token, outcome) ==
    remoteCalls' = Append(remoteCalls, [n |-> n, call |-> call, path |-> path,
                                        token |-> token, outcome |-> outcome])

BackToIdle == handler' = IdleHandler(handler.target_repo_base)

\* The filesystem changes and the observer queues the notification
Notify(e) ==
    /\ observer = "running"
    /\ localFs' = LocalAfter(localFs, e)
    /\ script' = Append(script, e)
    /\ queue' = Append(queue, Len(script) + 1)
    /\ UNCHANGED <<remoteVars, batchVars, handler, observer, remoteCalls, reports, others, toolVars>>

Deliver(e) == Len(script) < MaxEvents /\ Notify(e)

RaceDeliver(e) == Len(script) < MaxRaceEvents /\ Notify(e)

\* The observer has one dispatch thread: it calls the next handler when the
\* one before has returned
ObserverFreeAlways == TRUE
ObserverFree == handler.pc = "idle"

\* lines 788-795, 805-812, 822-828: the observer thread calls the handler, which
\* runs up to its first request
Dispatch ==
    /\ observer = "running"
    /\ ObserverFree
    /\ queue # <<>>
    /\ LET n   == queue[TakeAt(queue)]
           e   == script[n]
       IN  /\ queue' = Without(queue, TakeAt(queue))
           /\ IF ~Acts(e)
              THEN UNCHANGED <<handler, reports>>
              ELSE IF e.kind \in {"created", "modified"} /\ e.path \notin DOMAIN localFs
              THEN \* file_to_base64 raises: caught at 802 / 819
                   /\ Say(n, "error", "read")
                   /\ UNCHANGED handler
              ELSE /\ handler' = [handler EXCEPT
                         !.pc = "lookup",
                         !.n = n,
                         !.content_b64 = IF e.kind \in {"created", "modified"}
                                         THEN b64encode(localFs[e.path])
                                         ELSE None,
                         !.repo_path = _repo_path(e.path, handler.target_repo_base)]
                   /\ UNCHANGED reports
    /\ UNCHANGED <<remoteVars, batchVars, localFs, script, observer, remoteCalls, others, toolVars>>

\* lines 133-137: get_file_sha from the answer of get_repo_contents
get_file_sha(ok, data) == IF ok THEN data ELSE None

\* lines 796, 813, 829-832: the token lookup and what the handler does with it
AfterLookupNoCheck(sha) ==
    /\ handler' = [handler EXCEPT
          !.pc = IF script[handler.n].kind = "deleted" THEN "delete" ELSE "put",
          !.sha = sha, !.stale = FALSE]
    /\ UNCHANGED reports
AfterLookup(sha) ==
    IF script[handler.n].kind = "deleted"
    THEN /\ IF sha = None
            THEN Say(handler.n, "not_found", "lookup") /\ BackToIdle
            ELSE /\ handler' = [handler EXCEPT !.pc = "delete", !.sha = sha, !.stale = FALSE]
                 /\ UNCHANGED reports
    ELSE /\ handler' = [handler EXCEPT !.pc = "put", !.sha = sha, !.stale = FALSE]
         /\ UNCHANGED reports

Lookup ==
    /\ handler.pc = "lookup"
    /\ \/ \* the request raises: caught at 802 / 819 / 838
          /\ Call(handler.n, "get_file_sha", handler.repo_path, None, "raised")
          /\ Say(handler.n, "error", "lookup")
          /\ BackToIdle
       \/ \* a status other than 200 that is not about the path (rate limit, 5xx)
          /\ Call(handler.n, "get_file_sha", handler.repo_path, get_file_sha(FALSE, None), "failed")
          /\ AfterLookup(get_file_sha(FALSE, None))
       \/ \* 404
          /\ TokenAt(handler.repo_path) = None
          /\ Call(handler.n, "get_file_sha", handler.repo_path, get_file_sha(FALSE, None), "not_found")
          /\ AfterLookup(get_file_sha(FALSE, None))
       \/ \* 200
          /\ TokenAt(handler.repo_path) # None
          /\ Call(handler.n, "get_file_sha", handler.repo_path,
                  get_file_sha(TRUE, TokenAt(handler.repo_path)), "ok")
          /\ AfterLookup(get_file_sha(TRUE, TokenAt(handler.repo_path)))
    /\ UNCHANGED <<remoteVars, batchVars, localFs, queue, script, observer, others, toolVars>>

\* lines 142-143, 150-151: the token the client puts into the request
PresentedTokenCurrent(path, sha) == TokenAt(path)
PresentedTokenCached(path, sha) ==
    SelectSeq(remoteCalls, LAMBDA c : c.call = "get_file_sha" /\ c.path = path)[1].token
PresentedToken(path, sha) == IF sha # None THEN sha ELSE None

\* lines 797-801, 814-818: create_or_update_file and the report
Put ==
    /\ handler.pc = "put"
    /\ LET n     == handler.n
           path  == handler.repo_path
           token == PresentedToken(path, handler.sha)
       IN  \/ /\ Call(n, "create_or_update_file", path, token, "raised")
              /\ Report(n, "error", handler.sha, TokenAt(path), FALSE, handler.stale)
              /\ UNCHANGED remoteVars
           \/ /\ Call(n, "create_or_update_file", path, token, "failed")
              /\ Report(n, "failed", handler.sha, TokenAt(path), FALSE, handler.stale)
              /\ UNCHANGED remoteVars
           \/ /\ ~TokenAccepted(path, token)
              /\ Call(n, "create_or_update_file", path, token, "conflict")
              /\ Report(n, "failed", handler.sha, TokenAt(path), FALSE, handler.stale)
              /\ UNCHANGED remoteVars
           \/ /\ TokenAccepted(path, token)
              /\ Call(n, "create_or_update_file", path, token, "ok")
              /\ Install("watch", WithFile(HeadTree, path, BlobSha(b64decode(handler.content_b64))))
              /\ Report(n, "uploaded", handler.sha, TokenAt(path), TRUE, handler.stale)
    /\ BackToIdle
    /\ UNCHANGED <<batchVars, localFs, queue, script, observer, others, toolVars>>

\* lines 833-837: delete_file and the report
Delete ==
    /\ handler.pc = "delete"
    /\ LET n     == handler.n
           path  == handler.repo_path
           token == PresentedToken(path, handler.sha)
       IN  \/ /\ Call(n, "delete_file", path, token, "raised")
              /\ Report(n, "error", handler.sha, TokenAt(path), FALSE, handler.stale)
              /\ UNCHANGED remoteVars
           \/ /\ Call(n, "delete_file", path, token, "failed")
              /\ Report(n, "failed", handler.sha, TokenAt(path), FALSE, handler.stale)
              /\ UNCHANGED remoteVars
           \/ /\ ~(TokenAccepted(path, token) /\ token # None)
              /\ Call(n, "delete_file", path, token, "conflict")
              /\ Report(n, "failed", handler.sha, TokenAt(path), FALSE, handler.stale)
              /\ UNCHANGED remoteVars
           \/ /\ TokenAccepted(path, token) /\ token # None
              /\ Call(n, "delete_file", path, token, "ok")
              /\ Install("watch", WithoutFile(HeadTree, path))
              /\ Report(n, "deleted", handler.sha, TokenAt(path), TRUE, handler.stale)
    /\ BackToIdle
    /\ UNCHANGED <<batchVars, localFs, queue, script, observer, others, toolVars>>

\* The remote path other actors write to: where the watch loop puts a.txt
SharedPath == _repo_path(<<"a.txt">>, handler.target_repo_base)

\* What other actors write: new bytes, or the bytes the branch started with
OtherBytes == {<<7>>, <<9, 9, 9>>}

\* The handler's token is out of date once another actor mutated its file
Outdated(path) ==
    [handler EXCEPT !.stale = @ \/ (handler.pc \in {"put", "delete"} /\ handler.repo_path = path)]

\* Another actor creates or updates the file on the branch
OtherPut(bytes) ==
    /\ observer = "running"
    /\ others < MaxOther
    /\ head # NoRef
    /\ TokenAt(SharedPath) # BlobSha(bytes)
    /\ Install("other", WithFile(HeadTree, SharedPath, BlobSha(bytes)))
    /\ handler' = Outdated(SharedPath)
    /\ others' = others + 1
    /\ UNCHANGED <<batchVars, localFs, queue, script, observer, remoteCalls, reports, toolVars>>

\* Another actor deletes the file from the branch
OtherDelete ==
    /\ observer = "running"
    /\ others < MaxOther
    /\ head # NoRef
    /\ TokenAt(SharedPath) # None
    /\ Install("other", WithoutFile(HeadTree, SharedPath))
    /\ handler' = Outdated(SharedPath)
    /\ others' = others + 1
    /\ UNCHANGED <<batchVars, localFs, queue, script, observer, remoteCalls, reports, toolVars>>

\* lines 856-858: KeyboardInterrupt, the message, observer.stop()
StopSignal ==
    /\ observer = "running"
    /\ observer' = "stopping"
    /\ Say(0, "stopping", "stop")
    /\ UNCHANGED <<remoteVars, batchVars, localFs, queue, script, handler, remoteCalls, others, toolVars>>

\* line 859: observer.join() returns once the observer thread has ended, and
\* that thread ends only between two handlers
JoinNoWait == TRUE
JoinWaits == handler.pc = "idle"

\* lines 859-860: observer.join() and the closing message
ObserverJoin ==
    /\ observer = "stopping"
    /\ JoinWaits
    /\ observer' = "joined"
    /\ Say(0, "stopped", "stop")
    /\ UNCHANGED <<remoteVars, batchVars, localFs, queue, script, handler, remoteCalls, others, toolVars>>

\* lines 849-852: the observer starts with no event of its own: the folder is
\* not scanned
StartScriptExisting == <<FileEvent("created", <<"a.txt">>)>>
StartScript == <<>>

\* lines 849-852: the handler is built and the observer started; nothing is synced
WatchInit ==
    /\ InitRemote
    /\ batch = [b \in Batches |-> InitBatch({}, <<>>)]
    /\ calls = [b \in Batches |-> <<>>]
    /\ reads = [b \in Batches |-> << >>]
    /\ faults = [b \in Batches |-> {}]
    /\ others = 0
    /\ localFs = (<<"a.txt">> :> <<1>>)
    /\ queue = [i \in 1..Len(StartScript) |-> i]
    /\ script = StartScript
    /\ \E base \in WatchBases : handler = IdleHandler(Strip(base))
    /\ observer = "running"
    /\ remoteCalls = <<>>
    /\ reports = <<>>
    /\ ToolsIdle

\* The watch loop as the only writer of the branch
WatchNext ==
    \/ \E e \in WatchEvents : Deliver(e)
    \/ Dispatch
    \/ Lookup
    \/ Put
    \/ Delete
    \/ StopSignal
    \/ ObserverJoin

WatchSpec == WatchInit /\ [][WatchNext]_vars

\* The watch loop with other actors writing to the same branch
RaceNext ==
    \/ \E e \in WatchEvents : RaceDeliver(e)
    \/ Dispatch
    \/ Lookup
    \/ Put
    \/ Delete
    \/ \E bytes \in OtherBytes : OtherPut(bytes)
    \/ OtherDelete
    \/ StopSignal
    \/ ObserverJoin

RaceSpec == WatchInit /\ [][RaceNext]_vars

----------------------------------------------------------------------------
(* Properties of the watch loop *)

\* Event n has been dispatched and its handler has returned
Finished(n) ==
    /\ n \in 1..Len(script)
    /\ \A k \in 1..Len(queue) : queue[k] # n
    /\ handler.n # n

\* Event n is one the handlers act on: a created, modified or deleted file
\* with no ignored segment in its path
Relevant(n) ==
    /\ script[n].kind \in {"created", "modified", "deleted"}
    /\ ~script[n].is_directory
    /\ \A k \in 1..Len(LocalRoot \o script[n].path) :
          (LocalRoot \o script[n].path)[k] \notin SyncIgnore

ReportsOf(n) == SelectSeq(reports, LAMBDA r : r.n = n)

MutationOf(n) ==
    IF script[n].kind = "deleted" THEN "delete_file" ELSE "create_or_update_file"

\* The requests event n is due, given where its handler ended
EventCalls(n) ==
    LET path   == MappedPath(script[n].path, handler.target_repo_base)
        lookup == [n |-> n, call |-> "get_file_sha", path |-> path]
        mutate == [n |-> n, call |-> MutationOf(n), path |-> path]
    IN  IF ~Relevant(n) THEN <<>>
        ELSE IF Finished(n)
             THEN IF ReportsOf(n) = <<>> \/ ReportsOf(n)[1].at = "read" THEN <<>>
                  ELSE IF ReportsOf(n)[1].at = "lookup" THEN <<lookup>>
                  ELSE <<lookup, mutate>>
        ELSE IF handler.n = n /\ handler.pc \in {"put", "delete"} THEN <<lookup>>
        ELSE <<>>

RECURSIVE CallsUpTo(_)
\* The requests of events 1..n, in delivery order
CallsUpTo(n) == IF n = 0 THEN <<>> ELSE CallsUpTo(n - 1) \o EventCalls(n)

IssuedCalls ==
    [k \in 1..Len(remoteCalls) |->
        [n |-> remoteCalls[k].n, call |-> remoteCalls[k].call, path |-> remoteCalls[k].path]]

\* A put or delete was requested and answered
Mutations == SelectSeq(reports, LAMBDA r : r.at = "mutate")

C9_WatchOrdering ==
    /\ IssuedCalls = CallsUpTo(Len(script))
    /\ \A n \in 1..Len(script) :
          (Finished(n) /\ Relevant(n)) => Len(ReportsOf(n)) = 1
    /\ \A n \in 1..Len(script) : \A k \in 1..Len(queue) :
          (Finished(n) \/ handler.n = n) => n < queue[k]

\* C9 witness: a created then a modified event of one file gave two lookups and two puts
C9_Witness ==
    /\ Len(script) = 2
    /\ script[1] = FileEvent("created", <<"a.txt">>)
    /\ script[2] = FileEvent("modified", <<"a.txt">>)
    /\ Len(remoteCalls) = 4
    /\ remoteCalls[2].call = "create_or_update_file" /\ remoteCalls[2].n = 1
    /\ remoteCalls[4].call = "create_or_update_file" /\ remoteCalls[4].n = 2
    /\ \A k \in 1..4 : remoteCalls[k].outcome \in {"ok", "not_found"}

\* A request of the watch loop that failed (a 404 of the lookup is an answer, not a failure)
FailedCall(k) == remoteCalls[k].outcome \in {"failed", "raised", "conflict"}

\* C10 as stated: when a request (or the local read) of an event fails, the
\* failure is reported (an error, a failure or a not-found warning is printed
\* for the event), no further request is issued for that event, and the loop
\* goes on: the observer thread never ends inside a handler.
C10_Original ==
    /\ \A k \in 1..Len(remoteCalls) :
          FailedCall(k) =>
              /\ \A j \in (k + 1)..Len(remoteCalls) : remoteCalls[j].n # remoteCalls[k].n
              /\ Finished(remoteCalls[k].n) =>
                    /\ ReportsOf(remoteCalls[k].n) # <<>>
                    /\ ReportsOf(remoteCalls[k].n)[1].what \in {"failed", "error", "not_found"}
    /\ handler.pc = "idle" \/ observer # "joined"

----------------------------------------------------------------------------
(* Cancellation, deletes, tokens, directories, the ignore set, the start *)

\* The place in the output where the stop message was printed (0: not yet)
StoppedAt ==
    IF \E k \in 1..Len(reports) : reports[k].what = "stopping"
    THEN CHOOSE k \in 1..Len(reports) : reports[k].what = "stopping"
    ELSE 0

\* Event n has left the queue
Dispatched(n) == n \in 1..Len(script) /\ \A k \in 1..Len(queue) : queue[k] # n

\* C11 - Watch-loop cancellation: after the stop signal no handler is started
\* (nothing leaves the queue, the idle observer thread stays idle); when the
\* watch loop has returned no handler is in flight, and every event that was
\* dispatched has been handled to its end (one report for each event acted on).
C11_Cancellation ==
    /\ [](observer = "joined" =>
            /\ handler.pc = "idle"
            /\ \A n \in 1..Len(script) :
                  Dispatched(n) => /\ Finished(n)
                                   /\ Relevant(n) => Len(ReportsOf(n)) = 1)
    /\ [][observer # "running" =>
            /\ queue' = queue
            /\ handler.pc = "idle" => handler'.pc = "idle"]_vars

\* C11 witness: the stop signal came while a handler was in flight; the
\* handler printed its report after the stop message and the loop returned,
\* leaving an undispatched event in the queue
C11_Witness ==
    /\ observer = "joined"
    /\ StoppedAt > 0
    /\ \E j \in (StoppedAt + 1)..Len(reports) :
          reports[j].n > 0 /\ reports[j].what = "uploaded"
    /\ queue # <<>>

\* The requests made for event n
CallsOf(n) == SelectSeq(remoteCalls, LAMBDA c : c.n = n)

\* Request k follows a token lookup of the same event for the same path
AfterOwnLookup(k) ==
    /\ k > 1
    /\ remoteCalls[k - 1].call = "get_file_sha"
    /\ remoteCalls[k - 1].n = remoteCalls[k].n
    /\ remoteCalls[k - 1].path = remoteCalls[k].path

\* C12 - Delete without a token: delete_file is requested only right after a
\* lookup of the same event that returned a token; a deleted event whose
\* lookup returned no token makes no delete_file request and ends with the
\* not-found warning as its only report.
C12_DeleteNeedsToken ==
    /\ \A k \in 1..Len(remoteCalls) :
          remoteCalls[k].call = "delete_file" =>
              /\ AfterOwnLookup(k)
              /\ remoteCalls[k - 1].token # None
              /\ script[remoteCalls[k].n].kind = "deleted"
    /\ \A k \in 1..Len(remoteCalls) :
          LET n == remoteCalls[k].n
          IN  (/\ remoteCalls[k].call = "get_file_sha"
               /\ script[n].kind = "deleted"
               /\ remoteCalls[k].outcome # "raised"
               /\ remoteCalls[k].token = None) =>
                  /\ Len(CallsOf(n)) = 1
                  /\ Finished(n)
                  /\ Len(ReportsOf(n)) = 1
                  /\ ReportsOf(n)[1].what = "not_found"

\* C12 witness: a deleted file that is not on the branch: one lookup, the
\* warning, and the branch untouched
C12_Witness ==
    \E n \in 1..Len(script) :
        /\ script[n] = FileEvent("deleted", <<"a.txt">>)
        /\ Finished(n)
        /\ Len(CallsOf(n)) = 1
        /\ CallsOf(n)[1].outcome = "not_found"
        /\ ReportsOf(n)[1].what = "not_found"
        /\ refLog = <<>>

\* C13 - Fresh token: every create_or_update_file request follows a lookup
\* made for the same event and path, and carries the token that lookup returned.
C13_FreshToken ==
    \A k \in 1..Len(remoteCalls) :
        remoteCalls[k].call = "create_or_update_file" =>
            /\ AfterOwnLookup(k)
            /\ remoteCalls[k].token = remoteCalls[k - 1].token
            /\ script[remoteCalls[k].n].kind \in {"created", "modified"}

\* C13 witness: two events of one file; the second put carries the token of
\* the second lookup, which is not the token the first lookup returned
C13_Witness ==
    /\ Len(remoteCalls) = 4
    /\ remoteCalls[2].call = "create_or_update_file" /\ remoteCalls[2].outcome = "ok"
    /\ remoteCalls[4].call = "create_or_update_file" /\ remoteCalls[4].outcome = "ok"
    /\ remoteCalls[3].path = remoteCalls[1].path
    /\ remoteCalls[3].token # remoteCalls[1].token
    /\ remoteCalls[4].token = remoteCalls[3].token

\* C14 - Directory events: no request and no report is ever made for an event
\* with the directory flag, and the step that takes one off the queue leaves
\* the remote, the request log and the handler as they were.
C14_DirectoryEventsIgnored ==
    /\ [](\A n \in 1..Len(script) :
            script[n].is_directory =>
                /\ CallsOf(n) = <<>>
                /\ ReportsOf(n) = <<>>
                /\ handler.n # n)
    /\ [][(/\ queue # <<>>
           /\ queue' = Tail(queue)
           /\ script[queue[1]].is_directory) =>
              UNCHANGED <<remoteVars, remoteCalls, reports, handler>>]_vars

\* C14 witness: a deleted and a created directory event were dispatched
C14_Witness ==
    /\ Len(script) = 2
    /\ script[1] = DirEvent("deleted", <<"sub">>)
    /\ script[2] = DirEvent("created", <<"sub">>)
    /\ queue = <<>>
    /\ remoteCalls = <<>>
    /\ refLog = <<>>

\* Some segment of the event's path is in the ignore set
HasIgnoredSegment(n) ==
    \E k \in 1..Len(LocalRoot \o script[n].path) :
        (LocalRoot \o script[n].path)[k] \in SyncIgnore

\* The token lookup event n is due
LookupOf(n) ==
    [n |-> n, call |-> "get_file_sha",
     path |-> MappedPath(script[n].path, handler.target_repo_base)]

\* The handler of event n could not read the local file
ReadFailed(n) == ReportsOf(n) # <<>> /\ ReportsOf(n)[1].at = "read"

\* C15 as stated: a file event with an ignored segment causes no request, and
\* every handled created/modified/deleted file event without one caused the lookup.
C15_Original ==
    /\ \A n \in 1..Len(script) :
          (~script[n].is_directory /\ HasIgnoredSegment(n)) => CallsOf(n) = <<>>
    /\ \A n \in 1..Len(script) :
          (Finished(n) /\ Relevant(n)) =>
              \E k \in 1..Len(IssuedCalls) : IssuedCalls[k] = LookupOf(n)

\* C15 amended: a file event with an ignored segment causes no request; a
\* handled created/modified/deleted file event without one caused the lookup
\* for its mapped path, unless its handler could not read the local file, and
\* then it reported an error and made no request.
C15_IgnoreSet ==
    /\ \A n \in 1..Len(script) :
          (~script[n].is_directory /\ HasIgnoredSegment(n)) =>
              CallsOf(n) = <<>> /\ ReportsOf(n) = <<>>
    /\ \A n \in 1..Len(script) :
          (Finished(n) /\ Relevant(n)) =>
              IF ReadFailed(n)
              THEN /\ script[n].kind \in {"created", "modified"}
                   /\ ReportsOf(n)[1].what = "error"
                   /\ CallsOf(n) = <<>>
              ELSE \E k \in 1..Len(IssuedCalls) : IssuedCalls[k] = LookupOf(n)

\* C15 witness: a change under .git was dispatched without a request, and a
\* change of a.txt got its lookup
C15_Witness ==
    /\ Len(script) = 2
    /\ script[1] = FileEvent("modified", <<".git", "HEAD">>)
    /\ script[2] = FileEvent("modified", <<"a.txt">>)
    /\ Finished(1) /\ Finished(2)
    /\ CallsOf(1) = <<>>
    /\ Len(CallsOf(2)) = 2

\* The token of a remote path when the watch loop started
StartToken(q) ==
    IF q \in DOMAIN commits[1].tree THEN commits[1].tree[q] ELSE None

\* Some delivered event is about remote path q
EventFor(q) ==
    \E n \in 1..Len(script) :
        MappedPath(script[n].path, handler.target_repo_base) = q

\* C16 - No reconciliation pass: the loop starts idle with nothing queued;
\* while no event has been delivered there is no request and the branch has
\* not moved; every request is made for a delivered event; a remote path for
\* which no event was delivered keeps the token it had at the start.
C16_NoReconciliation ==
    /\ script = <<>> /\ queue = <<>> /\ handler.pc = "idle"
    /\ [](script = <<>> => remoteCalls = <<>> /\ refLog = <<>>)
    /\ [](\A k \in 1..Len(remoteCalls) : remoteCalls[k].n \in 1..Len(script))
    /\ [](\A q \in (DOMAIN HeadTree) \cup (DOMAIN commits[1].tree) :
            ~EventFor(q) => TokenAt(q) = StartToken(q))

\* C16 witness: the loop ran and returned; a.txt differed from the branch at
\* the start, only another file was touched, and a.txt is still unsynced
C16_Witness ==
    /\ observer = "joined"
    /\ script = <<FileEvent("modified", <<".git", "HEAD">>)>>
    /\ queue = <<>>
    /\ <<"a.txt">> \in DOMAIN localFs
    /\ ~EventFor(MappedPath(<<"a.txt">>, handler.target_repo_base))
    /\ TokenAt(MappedPath(<<"a.txt">>, handler.target_repo_base)) # BlobSha(localFs[<<"a.txt">>])
    /\ remoteCalls = <<>>

----------------------------------------------------------------------------
(* The scanner and the two path mappers, applied to chosen inputs *)

MaxApply == 2   \* applications of the mappers to one input

\* The segments of a "/"-separated string (str.split("/"))
RECURSIVE Split(_)
Split(s) ==
    IF \A k \in 1..Len(s) : s[k] # "/" THEN <<s>>
    ELSE LET k == CHOOSE i \in 1..Len(s) : s[i] = "/" /\ \A j \in 1..(i - 1) : s[j] # "/"
         IN  <<SubSeq(s, 1, k - 1)>> \o Split(SubSeq(s, k + 1, Len(s)))

\* The local roots, files and repo bases the mappers are applied to
MapRoots == {LocalRoot, <<"site">>}

MapBases ==
    RepoBases \cup {<<"..", "/", "d">>, <<".", "/", "d">>, <<"d", "/", "..", "/", "e">>,
                    <<"/", "/">>}

MapInputs ==
    {[fn |-> "map", local_base |-> root, file_path |-> root \o rel, repo_base |-> base,
      out |-> <<>>] : root \in MapRoots, rel \in LocalRelPaths, base \in MapBases}

\* The folders, local trees and skip patterns the scanner is applied to
ScanFolders == {<<"site">>, <<"/", "home", ".git", "site">>}

ScanFiles ==
    {<<"a.txt">>, <<".gitignore">>, <<"sub", "b.txt">>, <<".git", "HEAD">>,
     <<"sub", "__pycache__", "x.pyc">>}

ScanSkips == {{}, {".git"}, {".git", "__pycache__"}, {"sub"}, {"a.txt"}}

ScanInputs ==
    {[fn |-> "scan", folder |-> folder, tree |-> tree, skip_patterns |-> skip,
      out |-> <<>>] : folder \in ScanFolders, tree \in SUBSET ScanFiles, skip \in ScanSkips}

ToolInit ==
    /\ InitRemote
    /\ batch = [b \in Batches |-> InitBatch({}, <<>>)]
    /\ calls = [b \in Batches |-> <<>>]
    /\ reads = [b \in Batches |-> << >>]
    /\ faults = [b \in Batches |-> {}]
    /\ others = 0
    /\ WatchIdle
    /\ probe \in MapInputs \cup ScanInputs
    /\ walk = [pc |-> "idle"]

Returned(by, path) == probe' = [probe EXCEPT !.out = Append(@, [by |-> by, path |-> path])]

\* lines 237-242: path_to_repo_path(local_base, file_path, repo_base)
ApplyBatchMapper ==
    /\ probe.fn = "map"
    /\ Len(probe.out) < MaxApply
    /\ Returned("path_to_repo_path",
                path_to_repo_path(relative_to(probe.file_path, probe.local_base),
                                  probe.repo_base))
    /\ UNCHANGED <<remoteVars, batchVars, watchVars, others, walk>>

\* lines 774, 781-786: SyncEventHandler(cfg, local_root, target_repo_base, ...)._repo_path(src_path)
ApplyWatchMapper ==
    /\ probe.fn = "map"
    /\ Len(probe.out) < MaxApply
    /\ Returned("_repo_path",
                _repo_path(relative_to(probe.file_path, probe.local_base),
                           Strip(probe.repo_base)))
    /\ UNCHANGED <<remoteVars, batchVars, watchVars, others, walk>>

\* lines 229-235: gather_files_for_folder(folder, skip_patterns)
ApplyScan ==
    /\ probe.fn = "scan"
    /\ probe.out = <<>>
    /\ Returned("gather_files_for_folder",
                gather_files_for_folder(probe.folder, probe.tree, probe.skip_patterns))
    /\ UNCHANGED <<remoteVars, batchVars, watchVars, others, walk>>

ToolNext ==
    \/ ApplyBatchMapper
    \/ ApplyWatchMapper
    \/ ApplyScan

ToolSpec == ToolInit /\ [][ToolNext]_vars

\* The results the mappers returned so far
Mapped == IF probe.fn = "map" THEN probe.out ELSE <<>>

HasDotSegment(path) == \E k \in 1..Len(Split(path)) : Split(path)[k] \in {<<".">>, <<"..">>}

\* C17 as stated: no mapped path has a "." or ".." segment, whatever the
\* base, and a mapper applied twice to the same input returns the same path.
C17_Original ==
    /\ \A k \in 1..Len(Mapped) : ~HasDotSegment(Mapped[k].path)
    /\ \A j, k \in 1..Len(Mapped) :
          Mapped[j].by = Mapped[k].by => Mapped[j].path = Mapped[k].path

\* C18 as stated: no mapped path begins with "/", whatever the base.
C18_Original ==
    \A k \in 1..Len(Mapped) : Mapped[k].path = <<>> \/ Mapped[k].path[1] # "/"

\* C19 - Ignore correctness of the scanner: a file of the scanned folder is
\* absent from the output iff some segment of its path is a skip pattern, and
\* the output holds files of the folder only (no directories).
C19_ScanIgnore ==
    (probe.fn = "scan" /\ probe.out # <<>>) =>
        /\ \A rel \in probe.tree :
              (probe.folder \o rel \notin probe.out[1].path) <=>
                  (\E k \in 1..Len(probe.folder \o rel) :
                      (probe.folder \o rel)[k] \in probe.skip_patterns)
        /\ probe.out[1].path \subseteq {probe.folder \o rel : rel \in probe.tree}

\* C19 witness: with .git skipped, the file under .git is left out while
\* .gitignore and the other files are kept
C19_Witness ==
    /\ probe.fn = "scan" /\ probe.out # <<>>
    /\ probe.folder = <<"site">>
    /\ probe.tree = ScanFiles
    /\ probe.skip_patterns = {".git"}
    /\ probe.out[1].path = {<<"site">> \o rel : rel \in ScanFiles \ {<<".git", "HEAD">>}}

----------------------------------------------------------------------------
(* The recursive remote walk: gather_rec of op_delete, gather of dev_backup_pages *)

\* The files a branch may hold when a walk starts, and where the walk starts
\* ("" is the root, "x" is on no branch)
WalkFiles ==
    {<<"a.txt">>, <<"d", "/", "b.txt">>, <<"d", "/", "e", "/", "c.txt">>,
     <<"d", "/", "e", "/", "f.txt">>, <<"g", "/", "h.txt">>}

WalkTrees == {[q \in S |-> BlobSha(<<1>>)] : S \in SUBSET WalkFiles}

WalkTargets == {<<>>, <<"d">>, <<"d", "/", "e">>, <<"a.txt">>, <<"x">>}

\* File path q lies below directory path dir
Beneath(q, dir) ==
    IF dir = <<>> THEN TRUE
    ELSE /\ Len(q) > Len(dir) + 1
         /\ SubSeq(q, 1, Len(dir)) = dir
         /\ q[Len(dir) + 1] = "/"

\* The entry of a listing of dir through which file q is reached
EntryFor(q, dir) ==
    LET from == IF dir = <<>> THEN 1 ELSE Len(dir) + 2
        cuts == {k \in from..Len(q) : q[k] = "/"}
    IN  IF cuts = {} THEN [type |-> "file", path |-> q]
        ELSE [type |-> "dir",
              path |-> SubSeq(q, 1, (CHOOSE k \in cuts : \A j \in cuts : k <= j) - 1)]

\* The entries the remote lists for a directory path
Listing(dir) == {EntryFor(q, dir) : q \in {f \in DOMAIN HeadTree : Beneath(f, dir)}}

\* lines 400-401 / 739-740: gather_rec(pth) begins with get_repo_contents; a
\* failure returns at once and prints nothing; a file is appended; a listing
\* is gone through
ToFrame(stack, items) == <<items>> \o stack

Asked(pth, outcome) == Append(walk.requests, [path |-> pth, outcome |-> outcome])

Enter(pth, stack) ==
    \/ \* not ok: transport failure, or no such path
       /\ walk' = [walk EXCEPT !.pc = IF stack = <<>> THEN "done" ELSE "walking",
                               !.stack = stack,
                               !.requests = Asked(pth, IF pth \in DOMAIN HeadTree \/ Listing(pth) # {}
                                                       THEN "failed" ELSE "not_found")]
    \/ \* a dict of type file (402-403)
       /\ pth \in DOMAIN HeadTree
       /\ walk' = [walk EXCEPT !.pc = IF stack = <<>> THEN "done" ELSE "walking",
                               !.stack = stack,
                               !.file_paths = Append(@, pth),
                               !.requests = Asked(pth, "file")]
    \/ \* a list (404-405), in the order the remote gives it
       /\ Listing(pth) # {}
       /\ \E items \in Orderings(Listing(pth)) :
             walk' = [walk EXCEPT !.pc = "walking",
                                 !.stack = ToFrame(stack, items),
                                 !.requests = Asked(pth, "list")]

\* line 411 / 750: gather_rec(target), gather("")
WalkStart ==
    /\ walk.pc = "ready"
    /\ Enter(walk.target, <<>>)
    /\ UNCHANGED <<remoteVars, batchVars, watchVars, others, probe>>

\* lines 406-409 / 745-748: what is done with one entry of a listing
EntryActionFlat(it) == IF it.type = "file" THEN "append" ELSE "skip"
EntryAction(it) ==
    IF it.type = "file" THEN "append"
    ELSE IF it.type = "dir" THEN "recurse"
    ELSE "skip"

\* lines 405-409 / 744-748: the next entry of the listing being gone through
WalkItem ==
    /\ walk.pc = "walking"
    /\ walk.stack # <<>>
    /\ Head(walk.stack) # <<>>
    /\ LET it   == Head(Head(walk.stack))
           rest == <<Tail(Head(walk.stack))>> \o Tail(walk.stack)
       IN  \/ /\ EntryAction(it) = "append"
              /\ walk' = [walk EXCEPT !.stack = rest, !.file_paths = Append(@, it.path)]
           \/ /\ EntryAction(it) = "recurse"
              /\ Enter(it.path, rest)
           \/ /\ EntryAction(it) = "skip"
              /\ walk' = [walk EXCEPT !.stack = rest]
    /\ UNCHANGED <<remoteVars, batchVars, watchVars, others, probe>>

\* the for loop of one gather_rec call is over: the call returns
WalkReturn ==
    /\ walk.pc = "walking"
    /\ walk.stack # <<>>
    /\ Head(walk.stack) = <<>>
    /\ walk' = [walk EXCEPT !.stack = Tail(@),
                            !.pc = IF Tail(walk.stack) = <<>> THEN "done" ELSE "walking"]
    /\ UNCHANGED <<remoteVars, batchVars, watchVars, others, probe>>

WalkStartsAt(pc) ==
    /\ \E t \in WalkTrees :
          /\ commits = <<[tree |-> t, parents |-> <<>>, author |-> "init"]>>
          /\ trees = {TreeSha(t)}
          /\ blobs = {t[q] : q \in DOMAIN t}
    /\ head = 1
    /\ refLog = <<>>
    /\ batch = [b \in Batches |-> InitBatch({}, <<>>)]
    /\ calls = [b \in Batches |-> <<>>]
    /\ reads = [b \in Batches |-> << >>]
    /\ faults = [b \in Batches |-> {}]
    /\ others = 0
    /\ WatchIdle
    /\ probe = [fn |-> "none"]
    /\ \E target \in WalkTargets :
          walk = [pc |-> pc, target |-> target, stack |-> <<>>, file_paths |-> <<>>,
                  requests |-> <<>>, printed |-> <<>>, i |-> 1, sha |-> None,
                  failures |-> <<>>, attempts |-> <<>>]

\* gather_rec / gather about to be called on the start path
WalkInit == WalkStartsAt("ready")

WalkNext ==
    \/ WalkStart
    \/ WalkItem
    \/ WalkReturn

\* The walk is sequential code: it goes on until it returns
WalkSpec == WalkInit /\ [][WalkNext]_vars /\ WF_vars(WalkNext)

\* The files at or below the path the walk was started on
FilesBelowTarget ==
    {q \in DOMAIN HeadTree : q = walk.target \/ Beneath(q, walk.target)}

AllListingsSucceeded ==
    \A k \in 1..Len(walk.requests) : walk.requests[k].outcome \in {"list", "file"}

NoRepeat(seq) == \A j, k \in 1..Len(seq) : seq[j] = seq[k] => j = k

\* C20 - Recursive remote walk: the walk ends; it never asks for the same
\* path twice; it returns files only, each at most once; and when every
\* listing succeeded its result is exactly the files below the start path.
C20_RecursiveWalk ==
    /\ <>(walk.pc = "done")
    /\ [](NoRepeat([k \in 1..Len(walk.requests) |-> walk.requests[k].path]))
    /\ [](/\ NoRepeat(walk.file_paths)
          /\ \A k \in 1..Len(walk.file_paths) : walk.file_paths[k] \in DOMAIN HeadTree)
    /\ []((walk.pc = "done" /\ AllListingsSucceeded) =>
              Range(walk.file_paths) = FilesBelowTarget)

\* C20 witness: the walk of the root of the five-file branch returned the
\* five files after four listings
C20_Witness ==
    /\ walk.pc = "done"
    /\ walk.target = <<>>
    /\ DOMAIN HeadTree = WalkFiles
    /\ AllListingsSucceeded
    /\ Len(walk.requests) = 4
    /\ Len(walk.file_paths) = 5

\* The listings of the walk that failed
FailedListings ==
    {walk.requests[k].path : k \in {j \in 1..Len(walk.requests) :
                                        walk.requests[j].outcome \in {"failed", "not_found"}}}

\* The files below the start path that are under no directory whose listing failed
FilesStillListed ==
    {q \in FilesBelowTarget : \A dir \in FailedListings : q # dir /\ ~Beneath(q, dir)}

\* The directories found in a listing whose own listing then failed
FailedDirs ==
    {walk.requests[k].path : k \in {j \in 2..Len(walk.requests) :
                                        walk.requests[j].outcome = "failed"}}

\* C21 as stated: a directory whose listing fails is reported by a warning
\* naming it, and the walk goes on: when it has returned, its result is the
\* files under the directories that did list.
C21_Original ==
    /\ \A dir \in FailedDirs :
          \E k \in 1..Len(walk.printed) :
              walk.printed[k].what = "warning" /\ walk.printed[k].path = dir
    /\ walk.pc = "done" => Range(walk.file_paths) = FilesStillListed

----------------------------------------------------------------------------
(* op_delete on a directory: the walk, then one lookup and one delete per file *)

MaxDeleteFiles == 3   \* files on the branch a bulk delete is run against

\* A request of op_delete outside the walk, with the token it returned or carried
Attempt(call, path, token, outcome) ==
    Append(walk.attempts, [call |-> call, path |-> path, token |-> token, outcome |-> outcome])

\* lines 381-395: op_delete asks for the target: an error ends it, a file is
\* deleted on its own, anything else is walked
DeleteOpen ==
    /\ walk.pc = "open"
    /\ LET path == walk.target
       IN  \/ walk' = [walk EXCEPT !.pc = "raised",
                                   !.attempts = Attempt("get_repo_contents", path, None, "raised")]
           \/ walk' = [walk EXCEPT !.pc = "returned",
                                   !.attempts = Attempt("get_repo_contents", path, None, "failed"),
                                   !.printed = Append(@, [what |-> "error", path |-> path])]
           \/ /\ path \in DOMAIN HeadTree
              /\ walk' = [walk EXCEPT !.pc = "single",
                                      !.sha = TokenAt(path),
                                      !.attempts = Attempt("get_repo_contents", path,
                                                           TokenAt(path), "ok")]
           \/ /\ Listing(path) # {}
              /\ walk' = [walk EXCEPT !.pc = "ready",
                                      !.attempts = Attempt("get_repo_contents", path, None, "ok")]
    /\ UNCHANGED <<remoteVars, batchVars, watchVars, others, probe>>

\* lines 386-393: one file: the confirmation, then delete_file with the token
\* of the answer at 381
DeleteSingle ==
    /\ walk.pc = "single"
    /\ LET path  == walk.target
           token == PresentedToken(path, walk.sha)
       IN  \/ /\ walk' = [walk EXCEPT !.pc = "returned"]
              /\ UNCHANGED remoteVars
           \/ /\ walk' = [walk EXCEPT !.pc = "raised",
                                      !.attempts = Attempt("delete_file", path, token, "raised")]
              /\ UNCHANGED remoteVars
           \/ /\ walk' = [walk EXCEPT !.pc = "returned",
                                      !.attempts = Attempt("delete_file", path, token, "failed"),
                                      !.printed = Append(@, [what |-> "failure", path |-> path])]
              /\ UNCHANGED remoteVars
           \/ /\ ~(TokenAccepted(path, token) /\ token # None)
              /\ walk' = [walk EXCEPT !.pc = "returned",
                                      !.attempts = Attempt("delete_file", path, token, "conflict"),
                                      !.printed = Append(@, [what |-> "failure", path |-> path])]
              /\ UNCHANGED remoteVars
           \/ /\ TokenAccepted(path, token) /\ token # None
              /\ walk' = [walk EXCEPT !.pc = "returned",
                                      !.attempts = Attempt("delete_file", path, token, "ok")]
              /\ Install("delete", WithoutFile(HeadTree, path))
    /\ UNCHANGED <<batchVars, watchVars, others, probe>>

\* lines 412-419: nothing to delete, or the user's answer to the confirmation
DeleteConfirm ==
    /\ walk.pc = "done"
    /\ \/ /\ walk.file_paths = <<>>
          /\ walk' = [walk EXCEPT !.pc = "returned",
                                  !.printed = Append(@, [what |-> "nothing", path |-> None])]
       \/ /\ walk.file_paths # <<>>
          /\ walk' = [walk EXCEPT !.pc = "returned",
                                  !.printed = Append(@, [what |-> "cancelled", path |-> None])]
       \/ /\ walk.file_paths # <<>>
          /\ walk' = [walk EXCEPT !.pc = "del_lookup", !.i = 1]
    /\ UNCHANGED <<remoteVars, batchVars, watchVars, others, probe>>

\* line 423: sha = get_file_sha(p); an exception of the request leaves op_delete
DeleteLookup ==
    /\ walk.pc = "del_lookup"
    /\ LET path == walk.file_paths[walk.i]
       IN  \/ walk' = [walk EXCEPT !.pc = "raised",
                                   !.attempts = Attempt("get_file_sha", path, None, "raised")]
           \/ walk' = [walk EXCEPT !.pc = "del_delete",
                                   !.sha = get_file_sha(FALSE, None),
                                   !.attempts = Attempt("get_file_sha", path,
                                                        get_file_sha(FALSE, None), "failed")]
           \/ /\ TokenAt(path) # None
              /\ walk' = [walk EXCEPT !.pc = "del_delete",
                                      !.sha = get_file_sha(TRUE, TokenAt(path)),
                                      !.attempts = Attempt("get_file_sha", path,
                                                           get_file_sha(TRUE, TokenAt(path)), "ok")]
    /\ UNCHANGED <<remoteVars, batchVars, watchVars, others, probe>>

\* lines 425-432: after one file: the next one, or the summary and the failure list
AfterDelete(failures) ==
    IF walk.i < Len(walk.file_paths)
    THEN [walk EXCEPT !.pc = "del_lookup", !.i = @ + 1, !.failures = failures, !.sha = None]
    ELSE [walk EXCEPT !.pc = "returned", !.i = @ + 1, !.failures = failures, !.sha = None,
                      !.printed = @ \o [k \in 1..Len(failures) |->
                                           [what |-> "failure", path |-> failures[k]]]]

\* lines 424-426: delete_file with the token just looked up
DeleteFile ==
    /\ walk.pc = "del_delete"
    /\ LET path  == walk.file_paths[walk.i]
           token == PresentedToken(path, walk.sha)
       IN  \/ /\ walk' = [walk EXCEPT !.pc = "raised",
                                      !.attempts = Attempt("delete_file", path, token, "raised")]
              /\ UNCHANGED remoteVars
           \/ /\ walk' = [AfterDelete(Append(walk.failures, path)) EXCEPT
                              !.attempts = Attempt("delete_file", path, token, "failed")]
              /\ UNCHANGED remoteVars
           \/ /\ ~(TokenAccepted(path, token) /\ token # None)
              /\ walk' = [AfterDelete(Append(walk.failures, path)) EXCEPT
                              !.attempts = Attempt("delete_file", path, token, "conflict")]
              /\ UNCHANGED remoteVars
           \/ /\ TokenAccepted(path, token) /\ token # None
              /\ walk' = [AfterDelete(walk.failures) EXCEPT
                              !.attempts = Attempt("delete_file", path, token, "ok")]
              /\ Install("delete", WithoutFile(HeadTree, path))
    /\ UNCHANGED <<batchVars, watchVars, others, probe>>

\* lines 376-380: op_delete runs on a non-empty target
DeleteInit ==
    /\ WalkStartsAt("open")
    /\ Cardinality(DOMAIN HeadTree) <= MaxDeleteFiles
    /\ walk.target # <<>>

DeleteNext ==
    \/ DeleteOpen
    \/ DeleteSingle
    \/ WalkNext
    \/ DeleteConfirm
    \/ DeleteLookup
    \/ DeleteFile

DeleteSpec == DeleteInit /\ [][DeleteNext]_vars

\* op_delete has ended, by returning or by an exception
DeleteEnded == walk.pc \in {"returned", "raised"}

\* The user confirmed the bulk delete, and its loop began
DeleteConfirmed ==
    DeleteEnded /\ \E k \in 1..Len(walk.attempts) : walk.attempts[k].call = "get_file_sha"

AttemptsOf(call) == SelectSeq(walk.attempts, LAMBDA a : a.call = call)

\* The paths whose delete did not succeed, in the order of the attempts
FailedPaths ==
    LET failed == SelectSeq(walk.attempts, LAMBDA a :
                      \/ a.call = "delete_file" /\ a.outcome # "ok"
                      \/ a.call = "get_file_sha" /\ a.outcome = "raised")
    IN  [k \in 1..Len(failed) |-> failed[k].path]

PrintedFailures ==
    LET lines == SelectSeq(walk.printed, LAMBDA l : l.what = "failure")
    IN  [k \in 1..Len(lines) |-> lines[k].path]

\* C22 as stated: once a confirmed bulk delete has ended, every gathered path
\* was attempted exactly once in gathered order, whatever failed before it,
\* and the failure list it printed is exactly the paths whose delete failed.
C22_Original ==
    DeleteConfirmed =>
        /\ [k \in 1..Len(AttemptsOf("delete_file")) |-> AttemptsOf("delete_file")[k].path]
               = walk.file_paths
        /\ PrintedFailures = FailedPaths

----------------------------------------------------------------------------
(* Further properties of the batch upload *)

\* C23 as stated: no failure of a request leaves op_upload_folder as an
\* exception: every batch that ends, ends with one of its error results.
C23_Original == \A b \in Batches : batch[b].result # Raised

\* The calls a batch makes after its blob loop, up to update_ref
RefChain == <<"get_ref", "get_commit", "create_tree", "create_commit", "update_ref">>

EndsWith(seq, tail) ==
    /\ Len(seq) >= Len(tail)
    /\ SubSeq(seq, Len(seq) - Len(tail) + 1, Len(seq)) = tail

\* C24 - The head moves only in a successful update_ref: a batch calls
\* update_ref only after its get_ref, get_commit, create_tree and
\* create_commit all succeeded; a batch that ended with a failed commit
\* fetch, tree or commit made no update_ref call and never moved the branch;
\* every step that changes the head is either the accepted update_ref of a
\* batch or another actor's, and while the head stays the files visible on
\* the branch stay.
C24_HeadMovesOnlyAtUpdateRef ==
    /\ [](\A b \in Batches :
            /\ (HasCall(b, "update_ref") =>
                  /\ EndsWith(calls[b], RefChain)
                  /\ batch[b].new_commit_sha \in 1..Len(commits)
                  /\ batch[b].new_tree_sha \in trees)
            /\ (batch[b].result \in {CommitFetchFailed, TreeFailed, CommitFailed} =>
                  /\ ~HasCall(b, "update_ref")
                  /\ ~MovedBy(b))
            /\ MovedBy(b) => batch[b].result = BatchOk)
    /\ [][/\ (head' # head =>
               \/ head' = NoRef /\ batch' = batch
               \/ \E b \in Batches :
                     /\ calls'[b] = Append(calls[b], "update_ref")
                     /\ batch'[b].result = BatchOk
                     /\ head' = batch[b].new_commit_sha)
           /\ (head' = head => HeadTree' = HeadTree)]_vars

\* C24 witness: create_commit failed after the tree was created; the batch
\* ended there and the head is where it was
C24_Witness ==
    \E b \in Batches :
        /\ batch[b].result = CommitFailed
        /\ batch[b].new_tree_sha \in trees
        /\ calls[b][Len(calls[b])] = "create_commit"
        /\ refLog = <<>>
        /\ head = batch[b].startHead

\* The remote paths of the entries of batch b
EntryPaths(b) == {batch[b].tree_entries[k].path : k \in 1..Len(batch[b].tree_entries)}

\* C25 - Layering: the tree of a successful batch's commit has the paths of
\* the base tree and of the batch entries and no others; a path of the base
\* tree that is no entry keeps its content; each entry path has the entry's blob.
C25_LayeringPreservesPaths ==
    \A b \in Batches :
        batch[b].result = BatchOk =>
            LET base == commits[batch[b].base_commit_sha].tree
                new  == commits[batch[b].new_commit_sha].tree
            IN  /\ DOMAIN new = (DOMAIN base) \cup EntryPaths(b)
                /\ \A q \in (DOMAIN base) \ EntryPaths(b) : new[q] = base[q]
                /\ \A k \in 1..Len(batch[b].tree_entries) :
                      new[batch[b].tree_entries[k].path] = batch[b].tree_entries[k].sha

\* C25 witness: a batch replaced a.txt and added sub/b.txt; keep.txt is still
\* on the branch with the content it had
C25_Witness ==
    \E b \in Batches :
        /\ batch[b].result = BatchOk
        /\ head = batch[b].new_commit_sha
        /\ EntryPaths(b) = {<<"a.txt">>, <<"sub", "/", "b.txt">>}
        /\ HeadTree[<<"a.txt">>] # commits[1].tree[<<"a.txt">>]
        /\ HeadTree[<<"keep.txt">>] = commits[1].tree[<<"keep.txt">>]

\* C26 - One update_ref: a batch calls update_ref at most once, it is its
\* last call and the batch has ended after it, whatever the answer; an
\* accepted update was a fast-forward (the update is not forced).
C26_SingleUpdateRef ==
    /\ \A b \in Batches :
          /\ Len(SelectSeq(calls[b], LAMBDA c : c = "update_ref")) <= 1
          /\ (HasCall(b, "update_ref") =>
                /\ calls[b][Len(calls[b])] = "update_ref"
                /\ Done(b))
    /\ \A k \in 1..Len(refLog) :
          refLog[k].by \in Batches =>
              /\ refLog[k].from # NoRef
              /\ IsAncestor(refLog[k].from, refLog[k].to)

\* C26 witness: a batch whose update_ref was rejected as not a fast-forward
\* ended there
C26_Witness ==
    \E b \in Batches :
        /\ Done(b)
        /\ batch[b].result = UpdateRefFailed
        /\ batch[b].resp = "not_fast_forward"
        /\ calls[b][Len(calls[b])] = "update_ref"

\* Only the batches have moved the branch
OnlyBatchesMoved == \A k \in 1..Len(refLog) : refLog[k].by \in Batches

\* C27 - No lost batch: when only the two batches moved the branch, the
\* commit of every batch that reported success is the head or an ancestor of
\* it, and every path it wrote is on the branch; the batch whose commit is
\* the head has its own content there.
C27_NoLostBatch ==
    OnlyBatchesMoved =>
        \A b \in Batches :
            batch[b].result = BatchOk =>
                /\ IsAncestor(batch[b].new_commit_sha, head)
                /\ EntryPaths(b) \subseteq DOMAIN HeadTree
                /\ (head = batch[b].new_commit_sha =>
                      \A k \in 1..Len(batch[b].tree_entries) :
                          HeadTree[batch[b].tree_entries[k].path] = batch[b].tree_entries[k].sha)

\* C27 witness: both batches reported success, one with a.txt and one with
\* sub/b.txt, and both files are on the branch
C27_Witness ==
    /\ \A b \in Batches : batch[b].result = BatchOk
    /\ EntryPaths("b1") = {<<"a.txt">>}
    /\ EntryPaths("b2") = {<<"sub", "/", "b.txt">>}
    /\ head = batch["b1"].new_commit_sha
    /\ IsAncestor(batch["b2"].new_commit_sha, head)
    /\ {<<"a.txt">>, <<"sub", "/", "b.txt">>} \subseteq DOMAIN HeadTree

\* The entries of batch b as the set the files and their bytes determine
EntriesByFile(b) ==
    {[path |-> MappedPath(f, batch[b].target_repo_base), sha |-> BlobSha(reads[b][f])] :
        f \in DOMAIN reads[b]}

\* Two batches of the same files with the same bytes on the same base tree
SameInput(b, c) ==
    /\ batch[b].local_folder = batch[c].local_folder
    /\ batch[b].target_repo_base = batch[c].target_repo_base
    /\ reads[b] = reads[c]
    /\ batch[b].base_tree_sha = batch[c].base_tree_sha

\* C30 - Blob order: the entries of a batch are the set its files and their
\* bytes determine, whatever the order of the loop; two batches with the same
\* input that went through their files in different orders have the same
\* entry set, the same tree and, once committed, commits of the same content.
C30_BlobOrderIrrelevant ==
    /\ \A b \in Batches :
          batch[b].pc \notin {"start", "blobs"} /\ faults[b] = {} =>
              Range(batch[b].tree_entries) = EntriesByFile(b)
    /\ \A b, c \in Batches :
          (/\ SameInput(b, c)
           /\ batch[b].new_tree_sha # None
           /\ batch[c].new_tree_sha # None) =>
              /\ Range(batch[b].tree_entries) = Range(batch[c].tree_entries)
              /\ batch[b].new_tree_sha = batch[c].new_tree_sha
              /\ ((batch[b].new_commit_sha # NoRef /\ batch[c].new_commit_sha # NoRef) =>
                    commits[batch[b].new_commit_sha].tree = commits[batch[c].new_commit_sha].tree)

\* C30 witness: two batches of the same two files, gone through in opposite
\* orders, created the same tree
C30_Witness ==
    /\ SameInput("b1", "b2")
    /\ Len(batch["b1"].files) = 2
    /\ batch["b1"].files # batch["b2"].files
    /\ batch["b1"].new_tree_sha # None
    /\ batch["b1"].new_tree_sha = batch["b2"].new_tree_sha

----------------------------------------------------------------------------
(* The watch loop, one event at a time *)

\* Event n is being handled: it left the queue, it is one the handler acts on,
\* and the handler has not printed its outcome yet
Handling(n) == Dispatched(n) /\ Acts(script[n]) /\ ReportsOf(n) = <<>>

IsMutation(c) == c.call \in {"create_or_update_file", "delete_file"}

\* C29 - One event at a time: at most one event is being handled, and it is
\* the one the handler object works on; the handler is idle exactly when no
\* event is being handled, so a handler that printed its outcome, a failure
\* included, has returned; the requests of two events never interleave and an
\* event issues at most one mutation.
C29_OneEventAtATime ==
    /\ Cardinality({n \in 1..Len(script) : Handling(n)}) <= 1
    /\ \A n \in 1..Len(script) : Handling(n) <=> (handler.pc # "idle" /\ handler.n = n)
    /\ handler.pc = "idle" => handler.n = 0
    /\ \A i, j, k \in 1..Len(remoteCalls) :
          (i < j /\ j < k /\ remoteCalls[i].n = remoteCalls[k].n) =>
              remoteCalls[j].n = remoteCalls[i].n
    /\ \A n \in 1..Len(script) : Len(SelectSeq(CallsOf(n), IsMutation)) <= 1

\* C29 witness: the first event's mutation failed, its handler returned, and
\* the second event is being handled
C29_Witness ==
    /\ Len(script) = 2
    /\ ReportsOf(1) # <<>>
    /\ ReportsOf(1)[1].what \in {"failed", "error"}
    /\ \E k \in 1..Len(remoteCalls) : remoteCalls[k].n = 1 /\ IsMutation(remoteCalls[k])
    /\ Handling(2)
    /\ handler.pc \in {"put", "delete"}

----------------------------------------------------------------------------
(* The menu: one operation runs at a time *)

\* The batch upload is the operation that was started: no watch loop has run
\* and no op_delete
MenuIdle == observer = "joined" /\ reports = <<>> /\ walk.pc = "idle"

\* lines 964-967, 1012-1013: the user starts a batch upload, the watch loop
\* or a delete
MenuInit == Init \/ WatchInit \/ DeleteInit

MenuNext ==
    \/ \E b \in Batches : MenuIdle /\ Gather(b)
    \/ \E b \in Batches : MenuIdle /\ BlobStep(b)
    \/ \E b \in Batches : MenuIdle /\ GetRef(b)
    \/ \E b \in Batches : MenuIdle /\ GetCommit(b)
    \/ \E b \in Batches : MenuIdle /\ CreateTree(b)
    \/ \E b \in Batches : MenuIdle /\ CreateCommit(b)
    \/ \E b \in Batches : MenuIdle /\ UpdateRef(b)
    \/ MenuIdle /\ BranchDeleted
    \/ RaceNext
    \/ DeleteNext

MenuSpec == MenuInit /\ [][MenuNext]_vars

\* The attempt before attempt k of op_delete returned the token of the same path
AfterOwnAttempt(k) ==
    /\ k > 1
    /\ walk.attempts[k - 1].call \in {"get_file_sha", "get_repo_contents"}
    /\ walk.attempts[k - 1].path = walk.attempts[k].path
    /\ walk.attempts[k - 1].outcome = "ok"

\* C28 - Fresh lookup before every mutation.  Batch: the head hash a batch
\* builds on is the head at the step of its get_ref, it is read nowhere else,
\* and an update_ref follows exactly one get_ref, with only get_commit,
\* create_tree and create_commit between them, for a commit whose parent is
\* that hash.  Watch loop: a put or delete that carries a token carries the
\* token of the request just before it, a successful lookup of the same
\* event and path.  op_delete: a delete_file that carries a token carries the
\* token of the request just before it, a successful lookup of the same path.
C28_FreshLookup ==
    /\ [][\A b \in Batches :
             batch'[b].base_commit_sha # batch[b].base_commit_sha =>
                 /\ calls'[b] = Append(calls[b], "get_ref")
                 /\ batch'[b].base_commit_sha = head]_vars
    /\ [](\A b \in Batches :
             HasCall(b, "update_ref") =>
                 /\ EndsWith(calls[b], RefChain)
                 /\ Len(SelectSeq(calls[b], LAMBDA c : c = "get_ref")) = 1
                 /\ commits[batch[b].new_commit_sha].parents = <<batch[b].base_commit_sha>>)
    /\ [](\A k \in 1..Len(remoteCalls) :
             (IsMutation(remoteCalls[k]) /\ remoteCalls[k].token # None) =>
                 /\ AfterOwnLookup(k)
                 /\ remoteCalls[k - 1].outcome = "ok"
                 /\ remoteCalls[k].token = remoteCalls[k - 1].token)
    /\ [](walk.pc # "idle" =>
             \A k \in 1..Len(walk.attempts) :
                 (walk.attempts[k].call = "delete_file" /\ walk.attempts[k].token # None) =>
                     /\ AfterOwnAttempt(k)
                     /\ walk.attempts[k].token = walk.attempts[k - 1].token)

\* C28 witness: a bulk delete listed the folder, then deleted two files, each
\* with the token of the lookup made just before its delete
C28_Witness ==
    /\ walk.pc = "returned"
    /\ Len(walk.requests) >= 1
    /\ Len(AttemptsOf("get_file_sha")) = 2
    /\ Len(AttemptsOf("delete_file")) = 2
    /\ \A k \in 1..Len(walk.attempts) :
          walk.attempts[k].call = "delete_file" =>
              /\ walk.attempts[k].outcome = "ok"
              /\ walk.attempts[k].token = walk.attempts[k - 1].token

----------------------------------------------------------------------------
(* The two path mappers against each other *)

\* C32 as stated: path_to_repo_path and _repo_path, applied to the same local
\* root, file and remote base, return the same remote path, whatever the base.
C32_Original ==
    \A j, k \in 1..Len(Mapped) :
        Mapped[j].by # Mapped[k].by => Mapped[j].path = Mapped[k].path

----------------------------------------------------------------------------
(* Events of other kinds in the watch loop *)

\* Event n is of a kind the handler has no method for
OtherKind(n) == script[n].kind \notin {"created", "modified", "deleted"}

\* Some event the handlers act on changed remote path q
ChangedByEvent(q) ==
    \E n \in 1..Len(script) :
        /\ Relevant(n)
        /\ MappedPath(script[n].path, handler.target_repo_base) = q
        /\ \E k \in 1..Len(remoteCalls) :
              /\ remoteCalls[k].n = n
              /\ IsMutation(remoteCalls[k])
              /\ remoteCalls[k].outcome = "ok"

\* C34 - Other event kinds: no request and no report is ever made for an
\* event that is not created, modified or deleted, and the step that takes
\* such an event off the queue leaves the remote, the request log and the
\* handler as they were; a remote path keeps the token it had at the start
\* (present or absent) until a created, modified or deleted event of the file
\* mapped to it has changed it: after a local move the old path is still on
\* the branch and the new path is not.
C34_OtherKindsCauseNoCall ==
    /\ [](\A n \in 1..Len(script) :
            OtherKind(n) =>
                /\ CallsOf(n) = <<>>
                /\ ReportsOf(n) = <<>>
                /\ handler.n # n)
    /\ [][(/\ queue # <<>>
           /\ queue' = Tail(queue)
           /\ OtherKind(queue[1])) =>
              UNCHANGED <<remoteVars, remoteCalls, reports, handler>>]_vars
    /\ [](\A q \in (DOMAIN HeadTree) \cup (DOMAIN commits[1].tree) :
            ~ChangedByEvent(q) => TokenAt(q) = StartToken(q))

\* C34 witness: a.txt was moved to c.txt and the event was dispatched: no
\* request was made, the branch still has a.txt and has no c.txt
C34_Witness ==
    /\ script = <<FileEvent("moved", <<"a.txt">>)>>
    /\ queue = <<>>
    /\ DOMAIN localFs = {MoveTarget(<<"a.txt">>)}
    /\ remoteCalls = <<>>
    /\ handler.target_repo_base = <<>>
    /\ <<"a.txt">> \in DOMAIN HeadTree
    /\ MoveTarget(<<"a.txt">>) \notin DOMAIN HeadTree

----------------------------------------------------------------------------
(* op_rename: copy the file to the new path, then delete the old path *)

\* The branches op_rename is run against, and the paths the user enters
RenameTrees ==
    {(<<"a.txt">> :> BlobSha(<<1>>)),
     (<<"a.txt">> :> BlobSha(<<1>>)) @@ (<<"b.txt">> :> BlobSha(<<2>>)),
     (<<"a.txt">> :> BlobSha(<<1>>)) @@ (<<"b.txt">> :> BlobSha(<<1>>)),
     (<<"a.txt">> :> BlobSha(<<>>)) @@ (<<"d", "/", "b.txt">> :> BlobSha(<<2>>))}

RenameOlds == {<<"a.txt">>, <<"x">>, <<"d">>}

RenameNews == {<<>>, <<"a.txt">>, <<"b.txt">>, <<"c.txt">>}

\* lines 460-464: op_rename is entered with a non-empty old path
RenameInit ==
    /\ \E t \in RenameTrees :
          /\ commits = <<[tree |-> t, parents |-> <<>>, author |-> "init"]>>
          /\ trees = {TreeSha(t)}
          /\ blobs = {t[q] : q \in DOMAIN t}
    /\ head = 1
    /\ refLog = <<>>
    /\ batch = [b \in Batches |-> InitBatch({}, <<>>)]
    /\ calls = [b \in Batches |-> <<>>]
    /\ reads = [b \in Batches |-> << >>]
    /\ faults = [b \in Batches |-> {}]
    /\ others = 0
    /\ WatchIdle
    /\ probe = [fn |-> "none"]
    /\ \E old \in RenameOlds, new \in RenameNews :
          walk = [pc |-> "rn_open", old |-> old, new |-> new, sha_old |-> None,
                  content_b64 |-> None, sha_new |-> None, attempts |-> <<>>,
                  printed |-> <<>>]

\* op_rename prints a line and returns
RenameReturns(what, attempts) ==
    [walk EXCEPT !.pc = "returned", !.attempts = attempts,
                 !.printed = Append(@, [what |-> what, path |-> None])]

\* lines 465-473, 492-493: the old path is fetched; it must be a file, and the
\* new path must not be empty
RenameOpen ==
    /\ walk.pc = "rn_open"
    /\ LET path == walk.old
       IN  \/ walk' = [walk EXCEPT !.pc = "raised",
                                   !.attempts = Attempt("get_repo_contents", path, None, "raised")]
           \/ walk' = RenameReturns("error", Attempt("get_repo_contents", path, None, "failed"))
           \/ /\ Listing(path) # {}
              /\ walk' = RenameReturns("not_a_file",
                                       Attempt("get_repo_contents", path, None, "ok"))
           \/ /\ path \in DOMAIN HeadTree
              /\ walk' = IF walk.new = <<>>
                         THEN RenameReturns("empty_new_path",
                                            Attempt("get_repo_contents", path, TokenAt(path), "ok"))
                         ELSE [walk EXCEPT !.pc = "rn_download",
                                           !.sha_old = TokenAt(path),
                                           !.attempts = Attempt("get_repo_contents", path,
                                                                TokenAt(path), "ok")]
    /\ UNCHANGED <<remoteVars, batchVars, watchVars, others, probe>>

\* lines 155-163: download_file_contents from the answer of get_repo_contents:
\* an answer with no content (an empty file) counts as a failure
download_file_contents(ok, data) ==
    IF ok /\ data # None /\ BytesOf(data) # <<>>
    THEN [raw_ok |-> TRUE, raw |-> BytesOf(data)]
    ELSE [raw_ok |-> FALSE, raw |-> None]

\* lines 474-478: the old file is read and encoded
RenameDownload ==
    /\ walk.pc = "rn_download"
    /\ LET path == walk.old
           got  == download_file_contents(TRUE, TokenAt(path))
       IN  \/ walk' = [walk EXCEPT !.pc = "raised",
                                   !.attempts = Attempt("download", path, None, "raised")]
           \/ /\ ~download_file_contents(FALSE, None).raw_ok
              /\ walk' = RenameReturns("read_failed", Attempt("download", path, None, "failed"))
           \/ /\ ~got.raw_ok
              /\ walk' = RenameReturns("read_failed",
                                       Attempt("download", path, TokenAt(path), "ok"))
           \/ /\ got.raw_ok
              /\ walk' = [walk EXCEPT !.pc = "rn_lookup",
                                      !.content_b64 = b64encode(got.raw),
                                      !.attempts = Attempt("download", path, TokenAt(path), "ok")]
    /\ UNCHANGED <<remoteVars, batchVars, watchVars, others, probe>>

\* line 480: sha_new = get_file_sha(new)
RenameLookup ==
    /\ walk.pc = "rn_lookup"
    /\ LET path == walk.new
       IN  \/ walk' = [walk EXCEPT !.pc = "raised",
                                   !.attempts = Attempt("get_file_sha", path, None, "raised")]
           \/ walk' = [walk EXCEPT !.pc = "rn_put",
                                   !.sha_new = get_file_sha(FALSE, None),
                                   !.attempts = Attempt("get_file_sha", path,
                                                        get_file_sha(FALSE, None), "failed")]
           \/ /\ TokenAt(path) # None
              /\ walk' = [walk EXCEPT !.pc = "rn_put",
                                      !.sha_new = get_file_sha(TRUE, TokenAt(path)),
                                      !.attempts = Attempt("get_file_sha", path,
                                                           get_file_sha(TRUE, TokenAt(path)), "ok")]
    /\ UNCHANGED <<remoteVars, batchVars, watchVars, others, probe>>

\* lines 481-484: the content is written to the new path; a failure ends op_rename
RenamePut ==
    /\ walk.pc = "rn_put"
    /\ LET path  == walk.new
           token == PresentedToken(path, walk.sha_new)
       IN  \/ /\ walk' = [walk EXCEPT !.pc = "raised",
                              !.attempts = Attempt("create_or_update_file", path, token, "raised")]
              /\ UNCHANGED remoteVars
           \/ /\ walk' = RenameReturns("create_failed",
                              Attempt("create_or_update_file", path, token, "failed"))
              /\ UNCHANGED remoteVars
           \/ /\ ~TokenAccepted(path, token)
              /\ walk' = RenameReturns("create_failed",
                              Attempt("create_or_update_file", path, token, "conflict"))
              /\ UNCHANGED remoteVars
           \/ /\ TokenAccepted(path, token)
              /\ walk' = [walk EXCEPT !.pc = "rn_delete",
                              !.attempts = Attempt("create_or_update_file", path, token, "ok")]
              /\ Install("rename", WithFile(HeadTree, path, BlobSha(b64decode(walk.content_b64))))
    /\ UNCHANGED <<batchVars, watchVars, others, probe>>

\* lines 485-491: the old path is deleted with the token of the answer at 465
RenameDelete ==
    /\ walk.pc = "rn_delete"
    /\ LET path  == walk.old
           token == PresentedToken(path, walk.sha_old)
       IN  \/ /\ walk' = [walk EXCEPT !.pc = "raised",
                              !.attempts = Attempt("delete_file", path, token, "raised")]
              /\ UNCHANGED remoteVars
           \/ /\ walk' = RenameReturns("delete_failed",
                              Attempt("delete_file", path, token, "failed"))
              /\ UNCHANGED remoteVars
           \/ /\ ~(TokenAccepted(path, token) /\ token # None)
              /\ walk' = RenameReturns("delete_failed",
                              Attempt("delete_file", path, token, "conflict"))
              /\ UNCHANGED remoteVars
           \/ /\ TokenAccepted(path, token) /\ token # None
              /\ walk' = RenameReturns("renamed", Attempt("delete_file", path, token, "ok"))
              /\ Install("rename", WithoutFile(HeadTree, path))
    /\ UNCHANGED <<batchVars, watchVars, others, probe>>

RenameNext ==
    \/ RenameOpen
    \/ RenameDownload
    \/ RenameLookup
    \/ RenamePut
    \/ RenameDelete

RenameSpec == RenameInit /\ [][RenameNext]_vars

\* op_rename has ended, by returning or by an exception
RenameEnded == walk.pc \in {"returned", "raised"}

\* The content of the old path when op_rename started
OldContent == StartToken(walk.old)

\* C33 as stated: the delete of the old path is attempted only right after a
\* successful write of the new path, and when op_rename has ended on a file,
\* the content the old path had is at the old path or at the new path,
\* whatever the new path.
C33_Original ==
    /\ \A k \in 1..Len(walk.attempts) :
          walk.attempts[k].call = "delete_file" =>
              /\ k > 1
              /\ walk.attempts[k - 1].call = "create_or_update_file"
              /\ walk.attempts[k - 1].outcome = "ok"
    /\ (RenameEnded /\ OldContent # None) =>
          \/ TokenAt(walk.old) = OldContent
          \/ TokenAt(walk.new) = OldContent

----------------------------------------------------------------------------
(* Progress of the watch loop *)

\* lines 852-855: the observer thread runs while the main thread sleeps: a
\* queued event is dispatched once the handler before it has returned.  A
\* request is made with no timeout (lines 90-97): nothing in the program makes
\* a request that is never answered end, so the steps that complete a request
\* are not fair
WatchLiveSpec == WatchInit /\ [][WatchNext]_vars /\ WF_vars(Dispatch)

\* Event n has been delivered and is one the handlers act on
Due(n) == n \in 1..Len(script) /\ Relevant(n)

\* The handler of event n has run to its end and printed its one outcome
Handled(n) == Finished(n) /\ Len(ReportsOf(n)) = 1

\* C31 as stated: every delivered created, modified or deleted event of a
\* file that is not ignored is eventually handled to its end, unless the stop
\* signal is given first; no event is handled more than once: it gets at
\* most one outcome, one lookup and one mutation.
C31_Original ==
    /\ \A n \in 1..MaxEvents : Due(n) ~> (Handled(n) \/ observer # "running")
    /\ [](\A n \in 1..Len(script) :
            /\ Len(ReportsOf(n)) <= 1
            /\ Len(SelectSeq(CallsOf(n), LAMBDA c : c.call = "get_file_sha")) <= 1
            /\ Len(SelectSeq(CallsOf(n), IsMutation)) <= 1)

====
